---- MODULE Spec2Model ----
(***************************************************************************)
(* A model of the dice engine of src/src/obsidian-test/debug.js (dice.js): *)
(* the DiceRoller class (parse, parseKeep, rollDie, roll, clearHistory)    *)
(* and its bounded roll history.                                           *)
(*                                                                         *)
(* Strings are sequences of one-character strings, so that the regular     *)
(* expressions of the source can be modelled as scanners over characters.  *)
(***************************************************************************)
EXTENDS Integers, Sequences, FiniteSets, TLC

(***************************************************************************)
(* Bounds of the model.                                                    *)
(***************************************************************************)
\* Longest notation of the exhaustive input set handed to parse.
MaxLen == 4
\* Longest notation of the exhaustive input set handed to roll.
MaxRollLen == 2
\* Most dice one modelled roll draws (the loop of roll is unbounded).
MaxDice == 4
\* Math.random() is modelled as k / RandDenom, 0 <= k < RandDenom.
RandDenom == 20
\* Every RandStep-th numerator is sampled, and the largest one.
RandStep == 5
\* Most results allocated in one behaviour of SpecHistory.
MaxHistoryRolls == 52
\* Largest reading of the clock (Date.now()).
MaxNow == 1
\* Largest modifier, in absolute value, handed to rollAdvantage and
\* rollDisadvantage.
MaxModifier == 12

MaxFrags == 2

MaxClicks == 2

\* The fragments a filename is put together from.
MaxFilenameFrags == 3

\* The items the bestiary folder lists, and the pairs of data.json.
MaxFiles == 2

\* The files a script requests.
MaxFetches == 1

\* The characters of the scene.
MaxCharacters == 2

\* The requests and lookups the handlers may have in flight when another
\* handler starts.
MaxRounds == 2

\* The lookups started and the results stored.
MaxLookups == 3

\* The clicks on the Next Turn button.
MaxTurns == 3

(***************************************************************************)
(* Characters and strings.                                                 *)
(***************************************************************************)
Digits == {"0", "1", "2", "3", "4", "5", "6", "7", "8", "9"}

Max(S) == CHOOSE x \in S : \A y \in S : y <= x

Min2(a, b) == IF a <= b THEN a ELSE b

UpperLetters ==
  <<"A", "B", "C", "D", "E", "F", "G", "H", "I", "J", "K", "L", "M",
    "N", "O", "P", "Q", "R", "S", "T", "U", "V", "W", "X", "Y", "Z">>

LowerLetters ==
  <<"a", "b", "c", "d", "e", "f", "g", "h", "i", "j", "k", "l", "m",
    "n", "o", "p", "q", "r", "s", "t", "u", "v", "w", "x", "y", "z">>

\* String.prototype.toLowerCase on one character, which is also the case
\* folding of the flag i of a regular expression.
LowerChar(c) ==
  IF \E k \in 1..26 : UpperLetters[k] = c
  THEN LowerLetters[CHOOSE k \in 1..26 : UpperLetters[k] = c]
  ELSE c

toLowerCase(s) == [i \in 1..Len(s) |-> LowerChar(s[i])]

\* The class \s of the regular expressions.
IsSpace(c) == c \in {" ", "\t", "\n"}

\* notation.toLowerCase().replace(/\s+/g, '')
IsNotSpace(c) == ~IsSpace(c)

\* cleaned without toLowerCase().
CleanedKeepingCase(notation) == SelectSeq(notation, IsNotSpace)

Cleaned(notation) == SelectSeq(toLowerCase(notation), IsNotSpace)

\* The position after the longest run of digits of s that starts at i
\* (a greedy \d* at i).
DigitsEnd(s, i) ==
  Max({j \in i..(Len(s) + 1) : \A k \in i..(j - 1) : s[k] \in Digits})

DigitVal(c) ==
  CASE c = "0" -> 0 [] c = "1" -> 1 [] c = "2" -> 2 [] c = "3" -> 3
    [] c = "4" -> 4 [] c = "5" -> 5 [] c = "6" -> 6 [] c = "7" -> 7
    [] c = "8" -> 8 [] c = "9" -> 9

RECURSIVE DecimalValue(_)
DecimalValue(ds) ==
  IF ds = <<>> THEN 0
  ELSE 10 * DecimalValue(SubSeq(ds, 1, Len(ds) - 1)) + DigitVal(ds[Len(ds)])

\* parseInt on a string the regular expressions let through: an optional
\* sign and one or more decimal digits.
parseInt(str) ==
  IF str[1] = "-" THEN 0 - DecimalValue(Tail(str))
  ELSE IF str[1] = "+" THEN DecimalValue(Tail(str))
  ELSE DecimalValue(str)

(***************************************************************************)
(* DiceRoller.parse                                                        *)
(***************************************************************************)
\* JavaScript's null and undefined.
Null == [kind |-> "null"]

NoMatch == [matched |-> FALSE]

\* DiceMatch without the anchor $ at the end of the expression.
DiceMatchUnanchored(s) ==
  LET n == Len(s)
      c1 == DigitsEnd(s, 1)
      hasD == c1 <= n /\ s[c1] = "d"
      s1 == c1 + 1
      s2 == DigitsEnd(s, s1)
  IN  IF hasD /\ s2 > s1
      THEN [matched |-> TRUE,
            countStr |-> SubSeq(s, 1, c1 - 1),
            sidesStr |-> SubSeq(s, s1, s2 - 1),
            keepStr |-> <<>>,
            modStr |-> <<>>]
      ELSE NoMatch

\* cleaned.match(/^(\d*)d(\d+)(kh\d+|kl\d+)?([+-]\d+)?$/): the groups of the
\* match, an absent optional group being the empty string.
DiceMatch(s) ==
  LET n == Len(s)
      c1 == DigitsEnd(s, 1)
      hasD == c1 <= n /\ s[c1] = "d"
      s1 == c1 + 1
      s2 == DigitsEnd(s, s1)
      hasKeep == /\ s2 + 2 <= n
                 /\ s[s2] = "k"
                 /\ s[s2 + 1] \in {"h", "l"}
                 /\ s[s2 + 2] \in Digits
      k2 == IF hasKeep THEN DigitsEnd(s, s2 + 2) ELSE s2
      hasMod == /\ k2 + 1 <= n
                /\ s[k2] \in {"+", "-"}
                /\ s[k2 + 1] \in Digits
      m2 == IF hasMod THEN DigitsEnd(s, k2 + 1) ELSE k2
  IN  IF hasD /\ s2 > s1 /\ m2 = n + 1
      THEN [matched |-> TRUE,
            countStr |-> SubSeq(s, 1, c1 - 1),
            sidesStr |-> SubSeq(s, s1, s2 - 1),
            keepStr |-> SubSeq(s, s2, k2 - 1),
            modStr |-> SubSeq(s, k2, m2 - 1)]
      ELSE NoMatch

\* cleaned.match(/^([+-]?\d+)$/)
ModMatch(s) ==
  LET n == Len(s)
      d1 == IF n >= 1 /\ s[1] \in {"+", "-"} THEN 2 ELSE 1
      d2 == DigitsEnd(s, d1)
  IN  IF d2 > d1 /\ d2 = n + 1
      THEN [matched |-> TRUE, modStr |-> s]
      ELSE NoMatch

\* parseKeep with kh read as lowest and kl as highest.
parseKeepSwapped(keepStr) ==
  IF /\ Len(keepStr) >= 3
     /\ keepStr[1] = "k"
     /\ keepStr[2] \in {"h", "l"}
     /\ DigitsEnd(keepStr, 3) = Len(keepStr) + 1
  THEN [kind |-> "keep",
        type |-> IF keepStr[2] = "l" THEN "highest" ELSE "lowest",
        count |-> parseInt(SubSeq(keepStr, 3, Len(keepStr)))]
  ELSE Null

\* parseKeep: keepStr.match(/^(kh|kl)(\d+)$/)
parseKeep(keepStr) ==
  IF /\ Len(keepStr) >= 3
     /\ keepStr[1] = "k"
     /\ keepStr[2] \in {"h", "l"}
     /\ DigitsEnd(keepStr, 3) = Len(keepStr) + 1
  THEN [kind |-> "keep",
        type |-> IF keepStr[2] = "h" THEN "highest" ELSE "lowest",
        count |-> parseInt(SubSeq(keepStr, 3, Len(keepStr)))]
  ELSE Null

\* The value parse returns, or the error it throws.
InvalidNotation(notation) == [kind |-> "error", notation |-> notation]

\* A descriptor whose notation stops before the sign of the modifier.
DescriptorWithoutModifier(count, sides, modifier, keep, notation) ==
  LET signs == {p \in 1..Len(notation) : notation[p] \in {"+", "-"}}
      end == IF signs = {} THEN Len(notation)
             ELSE (CHOOSE p \in signs : \A q \in signs : p <= q) - 1
  IN  [kind |-> "descriptor", count |-> count, sides |-> sides,
       modifier |-> modifier, keep |-> keep,
       notation |-> SubSeq(notation, 1, end)]

Descriptor(count, sides, modifier, keep, notation) ==
  [kind |-> "descriptor", count |-> count, sides |-> sides,
   modifier |-> modifier, keep |-> keep, notation |-> notation]

parse(notation) ==
  LET cleaned == Cleaned(notation)
      match == DiceMatch(cleaned)
      modMatch == ModMatch(cleaned)
  IN  IF ~match.matched
      THEN IF modMatch.matched
           THEN Descriptor(0, 0, parseInt(modMatch.modStr), Null, cleaned)
           ELSE InvalidNotation(notation)
      ELSE Descriptor(
             IF match.countStr # <<>> THEN parseInt(match.countStr) ELSE 1,
             parseInt(match.sidesStr),
             IF match.modStr # <<>> THEN parseInt(match.modStr) ELSE 0,
             IF match.keepStr # <<>> THEN parseKeep(match.keepStr) ELSE Null,
             cleaned)

(***************************************************************************)
(* DiceRoller.roll                                                         *)
(***************************************************************************)
\* this.maxHistory, set by the constructor.
maxHistory == 50

\* The numerators k of the values k / RandDenom that Math.random() returns.
RandNums == {k \in 0..(RandDenom - 1) : k % RandStep = 0} \cup {RandDenom - 1}

\* rollDie without the + 1.
rollDieFromZero(sides, r) == (r * sides) \div RandDenom

\* rollDie: Math.floor(Math.random() * sides) + 1, Math.random() being
\* r / RandDenom.
rollDie(sides, r) == ((r * sides) \div RandDenom) + 1

\* The loop "Roll all dice": one die per draw of rnd, every die kept.
RollAll(parsed, rnd) ==
  [i \in 1..parsed.count |->
     [value |-> rollDie(parsed.sides, rnd[i]), kept |-> TRUE]]

\* The comparator handed to sort.
Compare(type, a, b) ==
  IF type = "highest" THEN b.value - a.value ELSE a.value - b.value

\* A sort that places an element before the elements it ties with.
RECURSIVE SortTiesReversed(_, _)
SortTiesReversed(items, type) ==
  IF items = <<>> THEN <<>>
  ELSE LET front == SortTiesReversed(SubSeq(items, 1, Len(items) - 1), type)
           x == items[Len(items)]
           Before(e) == Compare(type, e, x) < 0
           NotBefore(e) == Compare(type, e, x) >= 0
       IN  SelectSeq(front, Before) \o <<x>> \o SelectSeq(front, NotBefore)

\* Array.prototype.sort, which is stable: an element is placed after every
\* element that does not compare greater than it.
RECURSIVE Sort(_, _)
Sort(items, type) ==
  IF items = <<>> THEN <<>>
  ELSE LET front == Sort(SubSeq(items, 1, Len(items) - 1), type)
           x == items[Len(items)]
           NotAfter(e) == Compare(type, e, x) <= 0
           After(e) == Compare(type, e, x) > 0
       IN  SelectSeq(front, NotAfter) \o <<x>> \o SelectSeq(front, After)

\* rolls.map((r, i) => ({ value: r.value, index: i })).sort(...)
SortedIndices(rolls, type) ==
  Sort([i \in 1..Len(rolls) |-> [value |-> rolls[i].value, index |-> i]], type)

\* ApplyKeep leaving the outcomes in the order of the sort.
ApplyKeepInSortOrder(parsed, rolls) ==
  IF parsed.keep # Null /\ Len(rolls) > 0
  THEN LET sortedIndices == SortedIndices(rolls, parsed.keep.type)
           n == Min2(parsed.keep.count, Len(rolls))
       IN  [i \in 1..Len(rolls) |->
              [value |-> sortedIndices[i].value, kept |-> i <= n]]
  ELSE rolls

\* ApplyKeep with the loop bound i <= Math.min(...) in place of i < ...
ApplyKeepOneMore(parsed, rolls) ==
  IF parsed.keep # Null /\ Len(rolls) > 0
  THEN LET sortedIndices == SortedIndices(rolls, parsed.keep.type)
           n == Min2(parsed.keep.count + 1, Len(rolls))
           keptIdx == {sortedIndices[i].index : i \in 1..n}
       IN  [i \in 1..Len(rolls) |->
              [value |-> rolls[i].value, kept |-> i \in keptIdx]]
  ELSE rolls

\* "Apply keep rules if present".
ApplyKeep(parsed, rolls) ==
  IF parsed.keep # Null /\ Len(rolls) > 0
  THEN LET sortedIndices == SortedIndices(rolls, parsed.keep.type)
           n == Min2(parsed.keep.count, Len(rolls))
           keptIdx == {sortedIndices[i].index : i \in 1..n}
       IN  [i \in 1..Len(rolls) |->
              [value |-> rolls[i].value, kept |-> i \in keptIdx]]
  ELSE rolls

\* DiceTotal without the filter on kept.
RECURSIVE DiceTotalOfAll(_)
DiceTotalOfAll(rolls) ==
  IF rolls = <<>> THEN 0
  ELSE DiceTotalOfAll(SubSeq(rolls, 1, Len(rolls) - 1))
       + rolls[Len(rolls)].value

\* rolls.filter(r => r.kept).reduce((sum, r) => sum + r.value, 0)
RECURSIVE DiceTotal(_)
DiceTotal(rolls) ==
  IF rolls = <<>> THEN 0
  ELSE DiceTotal(SubSeq(rolls, 1, Len(rolls) - 1))
       + (IF rolls[Len(rolls)].kept THEN rolls[Len(rolls)].value ELSE 0)

\* Critical deciding on the total of the roll, not on the value of the die.
CriticalOnTotal(parsed, rolls) ==
  IF parsed.sides = 20 /\ parsed.count = 1
  THEN IF rolls[1].value + parsed.modifier = 1 THEN "fumble"
       ELSE IF rolls[1].value + parsed.modifier = 20 THEN "success"
       ELSE "null"
  ELSE "null"

\* "Check for critical (nat 20) or fumble (nat 1) on d20"; "null" is
\* JavaScript's null.
Critical(parsed, rolls) ==
  IF parsed.sides = 20 /\ parsed.count = 1
  THEN IF rolls[1].value = 1 THEN "fumble"
       ELSE IF rolls[1].value = 20 THEN "success"
       ELSE "null"
  ELSE "null"

\* The result object of roll; ref is the identity of the object.
RollResult(notation, parsed, rnd, ref, time) ==
  LET rolls == ApplyKeep(parsed, RollAll(parsed, rnd))
      diceTotal == DiceTotal(rolls)
  IN  [kind |-> "result",
       ref |-> ref,
       notation |-> parsed.notation,
       displayNotation |-> notation,
       rolls |-> rolls,
       modifier |-> parsed.modifier,
       diceTotal |-> diceTotal,
       total |-> diceTotal + parsed.modifier,
       critical |-> Critical(parsed, rolls),
       timestamp |-> time]

\* AddToHistory without the pop.
AddToHistoryNoPop(h, result) == <<result>> \o h

\* AddToHistory with shift in place of pop: the newest entry is dropped.
AddToHistoryShift(h, result) ==
  LET added == <<result>> \o h
  IN  IF Len(added) > maxHistory THEN Tail(added) ELSE added

\* "Add to history": unshift, then pop once beyond maxHistory.
AddToHistory(h, result) ==
  LET added == <<result>> \o h
  IN  IF Len(added) > maxHistory
      THEN SubSeq(added, 1, Len(added) - 1)
      ELSE added

(***************************************************************************)
(* The scanner: convertObsidianLinks, wrapAttackBonuses, wrapDiceNotation, *)
(* wrapSavingThrows and wrapAllDice.  A pass replaces the matches of its   *)
(* regular expression from left to right, each search starting where the   *)
(* match before it ended.                                                  *)
(***************************************************************************)
MinOf(S) == CHOOSE x \in S : \A y \in S : x <= y

\* The class \w of the regular expressions.
IsWord(c) ==
  \/ c \in Digits
  \/ c = "_"
  \/ \E k \in 1..26 : c = UpperLetters[k] \/ c = LowerLetters[k]

\* The position after the longest run of whitespace of s that starts at i
\* (a greedy \s* at i).
SpaceEnd(s, i) ==
  Max({j \in i..(Len(s) + 1) : \A k \in i..(j - 1) : IsSpace(s[k])})

\* The position after the longest run of \w of s that starts at i.
WordEnd(s, i) ==
  Max({j \in i..(Len(s) + 1) : \A k \in i..(j - 1) : IsWord(s[k])})

\* s holds the literal lit at i, letters compared without case.
HasAt(s, i, lit) ==
  /\ i >= 1
  /\ i + Len(lit) - 1 <= Len(s)
  /\ \A k \in 1..Len(lit) : LowerChar(s[i + k - 1]) = lit[k]

\* s holds the character c at i.
CharAt(s, i, c) == i >= 1 /\ i <= Len(s) /\ s[i] = c

SignAt(s, i) == i >= 1 /\ i <= Len(s) /\ s[i] \in {"+", "-"}

\* The first position of c in s at or after i, or 0.
IndexOf(s, c, i) ==
  IF \E j \in i..Len(s) : s[j] = c
  THEN MinOf({j \in i..Len(s) : s[j] = c})
  ELSE 0

\* The markers the passes insert.
KeywordOpen ==
  <<"<", "s", "p", "a", "n", " ", "c", "l", "a", "s", "s", "=", "\"",
      "k", "e", "y", "w", "o", "r", "d", "\"", ">">>

DiceOpen ==
  <<"<", "s", "p", "a", "n", " ", "c", "l", "a", "s", "s", "=", "\"",
      "d", "i", "c", "e", "-", "r", "o", "l", "l", "\"", " ", "d", "a",
      "t", "a", "-", "d", "i", "c", "e", "=", "\"">>

DiceOpenEnd ==
  <<"\"", " ", "r", "o", "l", "e", "=", "\"", "b", "u", "t", "t", "o",
      "n", "\"", " ", "t", "a", "b", "i", "n", "d", "e", "x", "=", "\"",
      "0", "\"", ">">>

DcOpen ==
  <<"<", "s", "p", "a", "n", " ", "c", "l", "a", "s", "s", "=", "\"",
      "d", "c", "-", "v", "a", "l", "u", "e", "\"", " ", "d", "a", "t",
      "a", "-", "d", "c", "=", "\"">>

DcOpenEnd == <<"\"", ">">>

SpanClose == <<"<", "/", "s", "p", "a", "n", ">">>

\* `<span class="keyword">$1</span>`
KeywordSpan(label) == KeywordOpen \o label \o SpanClose

\* The dice marker with the notation as its content.
DiceSpanOfNotation(notation, content) ==
  DiceOpen \o notation \o DiceOpenEnd \o notation \o SpanClose

\* `<span class="dice-roll" data-dice="${notation}" role="button"
\* tabindex="0">${content}</span>`
DiceSpan(notation, content) ==
  DiceOpen \o notation \o DiceOpenEnd \o content \o SpanClose

\* The saving-throw marker around the value and the suffix.
DcSpanWithSuffix(value) ==
  DcOpen \o value \o DcOpenEnd \o value
  \o <<" ", "s", "a", "v", "e">> \o SpanClose

\* `<span class="dc-value" data-dc="${value}">${value}</span>`
DcSpan(value) == DcOpen \o value \o DcOpenEnd \o value \o SpanClose

\* A match of /\[([^\]]+)\]\([^)]+\)/ at i: the positions of its "]" and
\* of its ")", or no match.
LinkMatch(s, i) ==
  IF ~CharAt(s, i, "[") THEN NoMatch
  ELSE LET close == IndexOf(s, "]", i + 1)
       IN  IF close < i + 2 \/ ~CharAt(s, close + 1, "(") THEN NoMatch
           ELSE LET paren == IndexOf(s, ")", close + 2)
                IN  IF paren < close + 3 THEN NoMatch
                    ELSE [matched |-> TRUE, close |-> close, last |-> paren]

\* text.replace(/\[([^\]]+)\]\([^)]+\)/g, '<span class="keyword">$1</span>')
\* from position i on.
RECURSIVE ReplaceLinks(_, _)
ReplaceLinks(s, i) ==
  LET starts == {p \in i..Len(s) : LinkMatch(s, p).matched}
  IN  IF starts = {} THEN SubSeq(s, i, Len(s))
      ELSE LET p == MinOf(starts)
               m == LinkMatch(s, p)
           IN  SubSeq(s, i, p - 1)
               \o KeywordSpan(SubSeq(s, p + 1, m.close - 1))
               \o ReplaceLinks(s, m.last + 1)

convertObsidianLinks(text) ==
  IF text = <<>> THEN <<>> ELSE ReplaceLinks(text, 1)

\* A match of /(Attack:\s*)([+\-]\d+)/i at i: the position of the bonus
\* and the position after the match.
AttackPrefixMatch(s, i) ==
  IF ~HasAt(s, i, <<"a", "t", "t", "a", "c", "k", ":">>) THEN NoMatch
  ELSE LET bonus == SpaceEnd(s, i + 7)
       IN  IF ~SignAt(s, bonus) \/ DigitsEnd(s, bonus + 1) = bonus + 1
           THEN NoMatch
           ELSE [matched |-> TRUE, bonus |-> bonus,
                 end |-> DigitsEnd(s, bonus + 1)]

\* The first replace of wrapAttackBonuses, from position i on.
RECURSIVE ReplaceAttackPrefix(_, _)
ReplaceAttackPrefix(s, i) ==
  LET starts == {p \in i..Len(s) : AttackPrefixMatch(s, p).matched}
  IN  IF starts = {} THEN SubSeq(s, i, Len(s))
      ELSE LET p == MinOf(starts)
               m == AttackPrefixMatch(s, p)
               bonus == SubSeq(s, m.bonus, m.end - 1)
           IN  SubSeq(s, i, m.bonus - 1)
               \o DiceSpan(<<"1", "d", "2", "0">> \o bonus, bonus)
               \o ReplaceAttackPrefix(s, m.end)

\* A match of /([+\-]\d+)(\s+to hit)/i at i: the position after the bonus
\* and the position after the match.
ToHitMatch(s, i) ==
  IF ~SignAt(s, i) \/ DigitsEnd(s, i + 1) = i + 1 THEN NoMatch
  ELSE LET suffix == DigitsEnd(s, i + 1)
           word == SpaceEnd(s, suffix)
       IN  IF word = suffix \/ ~HasAt(s, word, <<"t", "o", " ", "h", "i", "t">>)
           THEN NoMatch
           ELSE [matched |-> TRUE, suffix |-> suffix, end |-> word + 6]

\* The second replace of wrapAttackBonuses, from position i on.
RECURSIVE ReplaceToHit(_, _)
ReplaceToHit(s, i) ==
  LET starts == {p \in i..Len(s) : ToHitMatch(s, p).matched}
  IN  IF starts = {} THEN SubSeq(s, i, Len(s))
      ELSE LET p == MinOf(starts)
               m == ToHitMatch(s, p)
               bonus == SubSeq(s, p, m.suffix - 1)
           IN  SubSeq(s, i, p - 1)
               \o DiceSpan(<<"1", "d", "2", "0">> \o bonus, bonus)
               \o SubSeq(s, m.suffix, m.end - 1)
               \o ReplaceToHit(s, m.end)

wrapAttackBonuses(text) ==
  IF text = <<>> THEN <<>>
  ELSE ReplaceToHit(ReplaceAttackPrefix(text, 1), 1)

\* A match of /(\d*d\d+)/i at i: the modifier is not part of the match.
DiceTextMatchNoModifier(s, i) ==
  LET d == DigitsEnd(s, i)
  IN  IF ~HasAt(s, d, <<"d">>) \/ DigitsEnd(s, d + 1) = d + 1 THEN NoMatch
      ELSE [matched |-> TRUE, end |-> DigitsEnd(s, d + 1)]

\* A match of /(\d*d\d+(?:\s*[+\-]\s*\d+)?)/i at i: the position after it.
DiceTextMatch(s, i) ==
  LET d == DigitsEnd(s, i)
  IN  IF ~HasAt(s, d, <<"d">>) \/ DigitsEnd(s, d + 1) = d + 1 THEN NoMatch
      ELSE LET sides == DigitsEnd(s, d + 1)
               sign == SpaceEnd(s, sides)
               digits == SpaceEnd(s, sign + 1)
           IN  IF SignAt(s, sign) /\ DigitsEnd(s, digits) > digits
               THEN [matched |-> TRUE, end |-> DigitsEnd(s, digits)]
               ELSE [matched |-> TRUE, end |-> sides]

\* part.replace(diceRegex, ...) from position i on.
RECURSIVE ReplaceDice(_, _)
ReplaceDice(s, i) ==
  LET starts == {p \in i..Len(s) : DiceTextMatch(s, p).matched}
  IN  IF starts = {} THEN SubSeq(s, i, Len(s))
      ELSE LET p == MinOf(starts)
               m == DiceTextMatch(s, p)
               match == SubSeq(s, p, m.end - 1)
           IN  SubSeq(s, i, p - 1)
               \o DiceSpan(SelectSeq(match, IsNotSpace), match)
               \o ReplaceDice(s, m.end)

\* A match of /(<[^>"]+>)/ at i: a tag with a quoted attribute value is not
\* a tag.
TagMatchUnquoted(s, i) ==
  IF ~CharAt(s, i, "<") THEN NoMatch
  ELSE LET close == IndexOf(s, ">", i + 1)
       IN  IF close < i + 2 \/ IndexOf(s, "\"", i + 1) \in (i + 1)..close
           THEN NoMatch
           ELSE [matched |-> TRUE, last |-> close]

\* A match of /(<[^>]+>)/ at i: the position of its ">".
TagMatch(s, i) ==
  IF ~CharAt(s, i, "<") THEN NoMatch
  ELSE LET close == IndexOf(s, ">", i + 1)
       IN  IF close < i + 2 THEN NoMatch
           ELSE [matched |-> TRUE, last |-> close]

\* The callback of parts.map: a part that starts with "<" is skipped.
WrapPart(part) ==
  IF CharAt(part, 1, "<") THEN part ELSE ReplaceDice(part, 1)

\* text.split(/(<[^>]+>)/).map(...).join('') from position i on.
RECURSIVE WrapParts(_, _)
WrapParts(s, i) ==
  LET starts == {p \in i..Len(s) : TagMatch(s, p).matched}
  IN  IF starts = {} THEN WrapPart(SubSeq(s, i, Len(s)))
      ELSE LET p == MinOf(starts)
               m == TagMatch(s, p)
           IN  WrapPart(SubSeq(s, i, p - 1))
               \o WrapPart(SubSeq(s, p, m.last))
               \o WrapParts(s, m.last + 1)

wrapDiceNotation(text) ==
  IF text = <<>> THEN <<>> ELSE WrapParts(text, 1)

\* A match of /(DC\s*)(\d+)(\s+\w+\s+saving throw)/i at i: the position of
\* the value, the position after it and the position after the match.
SavingThrowMatch(s, i) ==
  IF ~HasAt(s, i, <<"d", "c">>) THEN NoMatch
  ELSE LET value == SpaceEnd(s, i + 2)
           suffix == DigitsEnd(s, value)
           word == SpaceEnd(s, suffix)
           gap == WordEnd(s, word)
           saving == SpaceEnd(s, gap)
       IN  IF \/ suffix = value
              \/ word = suffix
              \/ gap = word
              \/ saving = gap
              \/ ~HasAt(s, saving, <<"s", "a", "v", "i", "n", "g", " ",
                                     "t", "h", "r", "o", "w">>)
           THEN NoMatch
           ELSE [matched |-> TRUE, value |-> value, suffix |-> suffix,
                 end |-> saving + 12]

\* text.replace(/(DC\s*)(\d+)(\s+\w+\s+saving throw)/gi, ...) from
\* position i on.
RECURSIVE ReplaceSavingThrows(_, _)
ReplaceSavingThrows(s, i) ==
  LET starts == {p \in i..Len(s) : SavingThrowMatch(s, p).matched}
  IN  IF starts = {} THEN SubSeq(s, i, Len(s))
      ELSE LET p == MinOf(starts)
               m == SavingThrowMatch(s, p)
           IN  SubSeq(s, i, m.value - 1)
               \o DcSpan(SubSeq(s, m.value, m.suffix - 1))
               \o SubSeq(s, m.suffix, m.end - 1)
               \o ReplaceSavingThrows(s, m.end)

wrapSavingThrows(text) ==
  IF text = <<>> THEN <<>> ELSE ReplaceSavingThrows(text, 1)

wrapAllDice(text) ==
  IF text = <<>> THEN <<>>
  ELSE wrapSavingThrows(
         wrapDiceNotation(wrapAttackBonuses(convertObsidianLinks(text))))

(***************************************************************************)
(* The state: one DiceRoller and its caller, and the initiative tracker    *)
(* with its monster index and the scene it is loaded in.                   *)
(***************************************************************************)
VARIABLES
  history,   \* this.history, newest first
  call,      \* the last call made on the roller and its inputs
  ret,       \* what that call returned or threw
  now,       \* the clock read by Date.now()
  nextRef,   \* the number of result objects allocated so far
  pending,   \* the notation the caller is about to pass, if any
  ui,        \* the page: the popup shown, the events dispatched, the
             \* errors written to the console
  log,       \* the results returned since the history was last empty by
             \* construction or clearHistory, oldest first
  index,     \* monsterIndex: the homebrew map and the map of bestiary files
  fetched,   \* the paths fetchAndParseStatblock has requested, in order
  lookups,   \* the tokens getMonsterByTokenName was called for by
             \* updateTurnIndicator, in order
  scene,     \* the tracker's metadata of every character of the scene
  tracker,   \* currentTurnIndex and sortedItems of setupInitiativeList
  rounds     \* the asynchronous work of the handlers that is in flight

vars ==
  <<history, call, ret, now, nextRef, pending, ui, log,
    index, fetched, lookups, scene, tracker, rounds>>

\* The variables of the dice roller and its page.
roller == <<history, call, ret, now, nextRef, pending, ui, log>>

\* The variables of the monster fetcher.
fetcher == <<index, fetched>>

\* The variables of the initiative tracker and its scene.
initiative == <<lookups, scene, tracker, rounds>>

Undefined == [kind |-> "undefined"]

Call(op, notation, rnd) == [op |-> op, notation |-> notation, rnd |-> rnd]

NoInput == [some |-> FALSE, notation |-> <<>>]

Input(notation) == [some |-> TRUE, notation |-> notation]

\* The page before any activation: no popup, no event, no error; shown
\* counts the calls of showRollResult, activations the events the two
\* listeners have handled.
NoUi ==
  [popup |-> Undefined, shown |-> 0, events |-> <<>>, errors |-> <<>>,
   activations |-> 0]

\* new DiceRoller()
NewDiceRoller ==
  /\ ui = NoUi
  /\ history = <<>>
  /\ call = Call("new", <<>>, <<>>)
  /\ ret = Undefined
  /\ now = 0
  /\ nextRef = 0
  /\ log = <<>>

\* The number of draws roll(notation) takes from Math.random().
DrawCount(notation) ==
  IF parse(notation).kind = "descriptor" THEN parse(notation).count ELSE 0

\* roller.parse(notation)
Parse(notation) ==
  /\ call' = Call("parse", notation, <<>>)
  /\ ret' = parse(notation)
  /\ UNCHANGED <<history, now, nextRef, ui, log>>
  /\ UNCHANGED <<fetcher, initiative>>

\* The body of roll(notation), Math.random() returning rnd[1], rnd[2], ...
\* in turn.
RollBody(notation, rnd) ==
  LET parsed == parse(notation)
  IN  /\ Len(rnd) = DrawCount(notation)
      /\ IF parsed.kind = "error"
         THEN /\ ret' = parsed
              /\ UNCHANGED <<history, nextRef, log>>
         ELSE LET result == RollResult(notation, parsed, rnd, nextRef, now)
              IN  /\ ret' = result
                  /\ history' = AddToHistory(history, result)
                  /\ nextRef' = nextRef + 1
                  /\ log' = Append(log, result)
      /\ UNCHANGED now
      /\ UNCHANGED <<fetcher, initiative>>

\* roller.roll(notation)
Roll(notation, rnd) ==
  /\ call' = Call("roll", notation, rnd)
  /\ RollBody(notation, rnd)

\* The decimal digits of a natural number, as String(n) writes them.
RECURSIVE NaturalToString(_)
NaturalToString(n) ==
  LET DigitChar(d) == CHOOSE c \in Digits : DigitVal(c) = d
  IN  IF n < 10 THEN <<DigitChar(n)>>
      ELSE NaturalToString(n \div 10) \o <<DigitChar(n % 10)>>

\* `${modifier}` for an integer modifier.
NumberToString(n) ==
  IF n < 0 THEN <<"-">> \o NaturalToString(0 - n) ELSE NaturalToString(n)

\* modStr without the '+' of a modifier that is not negative.
ModStrUnsigned(modifier) == NumberToString(modifier)

\* const modStr = modifier >= 0 ? `+${modifier}` : `${modifier}`;
ModStr(modifier) ==
  IF modifier >= 0 THEN <<"+">> \o NumberToString(modifier)
  ELSE NumberToString(modifier)

CallWithModifier(op, modifier, rnd) ==
  [op |-> op, notation |-> <<>>, rnd |-> rnd, modifier |-> modifier]

\* roller.rollAdvantage(modifier): this.roll(`2d20kh1${modStr}`)
RollAdvantage(modifier, rnd) ==
  /\ call' = CallWithModifier("rollAdvantage", modifier, rnd)
  /\ RollBody(<<"2", "d", "2", "0", "k", "h", "1">> \o ModStr(modifier), rnd)

\* roller.rollDisadvantage(modifier): this.roll(`2d20kl1${modStr}`)
RollDisadvantage(modifier, rnd) ==
  /\ call' = CallWithModifier("rollDisadvantage", modifier, rnd)
  /\ RollBody(<<"2", "d", "2", "0", "k", "l", "1">> \o ModStr(modifier), rnd)

\* The catch of the click listener with a dispatch of diceRolled added.
CaughtAndDispatched(page, error) ==
  [page EXCEPT !.errors = Append(@, error), !.events = Append(@, error)]

\* catch (error) { console.error('Dice roll error:', error); }
Caught(page, error) == [page EXCEPT !.errors = Append(@, error)]

\* showRollResult(result, ...), which removes the popup there is and
\* appends one for result, and the dispatch of diceRolled with result as
\* its detail.
ShownAndDispatched(page, result) ==
  [page EXCEPT !.popup = result,
               !.shown = @ + 1,
               !.events = Append(@, result)]

KeyCall(key, notation, rnd) ==
  [op |-> "keydown", key |-> key, notation |-> notation, rnd |-> rnd]

\* The click listener of initDiceHandlers for a click inside a .dice-roll
\* element whose data-dice is notation; ret is what roller.roll returned or
\* threw inside the try.
Activate(notation, rnd) ==
  LET parsed == parse(notation)
      handled == [ui EXCEPT !.activations = @ + 1]
  IN  /\ ui.activations < MaxClicks
      /\ RollBody(notation, rnd)
      /\ ui' = IF parsed.kind = "error" THEN Caught(handled, parsed)
               ELSE ShownAndDispatched(
                      handled, RollResult(notation, parsed, rnd, nextRef, now))
      /\ UNCHANGED pending

\* A click on a dice token.
Click(notation, rnd) ==
  /\ call' = Call("click", notation, rnd)
  /\ Activate(notation, rnd)

\* The keydown listener of initDiceHandlers, the focus on a dice token:
\* Enter and the space bar click the token, another key does nothing.
Keydown(key, notation, rnd) ==
  /\ call' = KeyCall(key, notation, rnd)
  /\ IF key \in {"Enter", " "}
     THEN Activate(notation, rnd)
     ELSE /\ ui.activations < MaxClicks
          /\ rnd = <<>>
          /\ ret' = Undefined
          /\ ui' = [ui EXCEPT !.activations = @ + 1]
          /\ UNCHANGED <<history, now, nextRef, pending, log>>
          /\ UNCHANGED <<fetcher, initiative>>

\* The timers of showRollResult and its dismiss handler: the popup is
\* removed from the page.
RemovePopup ==
  /\ ui.popup # Undefined
  /\ ui' = [ui EXCEPT !.popup = Undefined]
  /\ UNCHANGED <<history, call, ret, now, nextRef, pending, log>>
  /\ UNCHANGED <<fetcher, initiative>>

\* roller.clearHistory()
ClearHistory ==
  /\ history' = <<>>
  /\ call' = Call("clearHistory", <<>>, <<>>)
  /\ ret' = Undefined
  /\ log' = <<>>
  /\ UNCHANGED <<now, nextRef, pending, ui>>
  /\ UNCHANGED <<fetcher, initiative>>

\* Time passes.
Tick ==
  /\ now < MaxNow
  /\ now' = now + 1
  /\ UNCHANGED <<history, call, ret, nextRef, pending, ui, log>>
  /\ UNCHANGED <<fetcher, initiative>>

(***************************************************************************)
(* The monster fetcher.                                                    *)
(***************************************************************************)
\* CONFIG.BESTIARY_PATH
BESTIARY_PATH ==
  <<"M", "e", "c", "h", "a", "n", "i", "c", "s", "/", "c", "o", "m", "p",
    "e", "n", "d", "i", "u", "m", "/", "b", "e", "s", "t", "i", "a", "r",
    "y">>

\* A string a function returns, as opposed to null.
String(s) == [kind |-> "string", value |-> s]

\* A parsed statblock: the one data.json holds under a name, or the one of
\* the statblock block of a file.
Statblock(from, of) == [kind |-> "statblock", from |-> from, of |-> of]

\* s.endsWith(suffix)
EndsWith(s, suffix) ==
  /\ Len(s) >= Len(suffix)
  /\ SubSeq(s, Len(s) - Len(suffix) + 1, Len(s)) = suffix

\* s.split(sep) for a separator of one character.
RECURSIVE Split(_, _)
Split(s, sep) ==
  LET at == IndexOf(s, sep, 1)
  IN  IF at = 0 THEN <<s>>
      ELSE <<SubSeq(s, 1, at - 1)>> \o Split(SubSeq(s, at + 1, Len(s)), sep)

\* parts.join(sep)
RECURSIVE Join(_, _)
Join(parts, sep) ==
  IF parts = <<>> THEN <<>>
  ELSE IF Len(parts) = 1 THEN parts[1]
  ELSE parts[1] \o sep \o Join(Tail(parts), sep)

\* filenameToMonsterName with the words joined by the dashes they were
\* split at.
filenameToMonsterNameDashed(filename) ==
  LET withoutExt == IF EndsWith(filename, <<".", "m", "d">>)
                    THEN SubSeq(filename, 1, Len(filename) - 3)
                    ELSE filename
      parts == Split(withoutExt, "-")
      nameParts == SubSeq(parts, 1, Len(parts) - 1)
  IN  IF Len(nameParts) = 0 THEN Null
      ELSE String(Join(nameParts, <<"-">>))

filenameToMonsterName(filename) ==
  LET withoutExt == IF EndsWith(filename, <<".", "m", "d">>)
                    THEN SubSeq(filename, 1, Len(filename) - 3)
                    ELSE filename
      parts == Split(withoutExt, "-")
      nameParts == SubSeq(parts, 1, Len(parts) - 1)
  IN  IF Len(nameParts) = 0 THEN Null
      ELSE String(Join(nameParts, <<" ">>))

\* map.set(key, value); the map of no key, new Map(), is <<>>.
MapSet(map, key, value) ==
  [k \in DOMAIN map \cup {key} |-> IF k = key THEN value ELSE map[k]]

\* getHomebrewMonsters(), monsters being the names of the pairs of
\* data.monsters in data.json, in order.
RECURSIVE getHomebrewMonsters(_)
getHomebrewMonsters(monsters) ==
  IF monsters = <<>> THEN <<>>
  ELSE LET n == Len(monsters)
           name == monsters[n]
       IN  MapSet(getHomebrewMonsters(SubSeq(monsters, 1, n - 1)),
                  toLowerCase(name), Statblock("homebrew", name))

\* listAllMarkdownFiles(folderPath), vault[path] being the files the
\* Obsidian API lists for the folder path; the request for a folder that is
\* not in vault fails.  MarkdownFiles is the loop over the items from the
\* k-th on.
RECURSIVE listAllMarkdownFiles(_, _)
RECURSIVE MarkdownFiles(_, _, _)
MarkdownFiles(folderPath, vault, k) ==
  LET items == vault[folderPath]
      item == items[k]
      subPath == folderPath \o <<"/">> \o SubSeq(item, 1, Len(item) - 1)
      found == IF EndsWith(item, <<"/">>)
               THEN IF subPath \in DOMAIN vault
                    THEN listAllMarkdownFiles(subPath, vault)
                    ELSE <<>>
               ELSE IF EndsWith(item, <<".", "m", "d">>)
               THEN <<folderPath \o <<"/">> \o item>>
               ELSE <<>>
  IN  IF k > Len(items) THEN <<>>
      ELSE found \o MarkdownFiles(folderPath, vault, k + 1)

listAllMarkdownFiles(folderPath, vault) ==
  MarkdownFiles(folderPath, vault, 1)

\* indexBestiaryFiles(), files being the paths listAllMarkdownFiles
\* returned.
RECURSIVE indexBestiaryFiles(_)
indexBestiaryFiles(files) ==
  IF files = <<>> THEN <<>>
  ELSE LET n == Len(files)
           fileIndex == indexBestiaryFiles(SubSeq(files, 1, n - 1))
           filepath == files[n]
           segments == Split(filepath, "/")
           filename == segments[Len(segments)]
           name == filenameToMonsterName(filename)
       IN  IF name = Null THEN fileIndex
           ELSE MapSet(fileIndex, toLowerCase(name.value), filepath)

\* buildMonsterIndex()
buildMonsterIndex(monsters, vault) ==
  [homebrew |-> getHomebrewMonsters(monsters),
   files |-> indexBestiaryFiles(listAllMarkdownFiles(BESTIARY_PATH, vault))]

\* What fetchAndParseStatblock(filepath) can return or throw: the statblock
\* of the file, null for a file without a statblock block, the error
\* obsidianFetch throws for a request that failed.
fetchAndParseStatblock(filepath) ==
  {Statblock("file", filepath), Null,
   [kind |-> "error", endpoint |-> filepath]}

\* getMonsterByTokenName that asks the file index before the homebrew map.
getMonsterByTokenNameFilesFirst(tokenName, monsterIndex) ==
  LET searchKey == toLowerCase(tokenName)
  IN  IF searchKey \in DOMAIN monsterIndex.files
      THEN {[value |-> v, fetch |-> <<monsterIndex.files[searchKey]>>] :
              v \in fetchAndParseStatblock(monsterIndex.files[searchKey])}
      ELSE IF searchKey \in DOMAIN monsterIndex.homebrew
      THEN {[value |-> monsterIndex.homebrew[searchKey], fetch |-> <<>>]}
      ELSE {[value |-> Null, fetch |-> <<>>]}

\* getMonsterByTokenName(tokenName, index): the values it can return or
\* throw, each with the paths it requests.
getMonsterByTokenName(tokenName, monsterIndex) ==
  LET searchKey == toLowerCase(tokenName)
  IN  IF searchKey \in DOMAIN monsterIndex.homebrew
      THEN {[value |-> monsterIndex.homebrew[searchKey], fetch |-> <<>>]}
      ELSE IF searchKey \in DOMAIN monsterIndex.files
      THEN {[value |-> v, fetch |-> <<monsterIndex.files[searchKey]>>] :
              v \in fetchAndParseStatblock(monsterIndex.files[searchKey])}
      ELSE {[value |-> Null, fetch |-> <<>>]}

\* A page the extension is not loaded on: buildMonsterIndex has not run,
\* no file was requested, and no initiative tracker is set up.
NoExtension ==
  /\ index = Undefined
  /\ fetched = <<>>
  /\ lookups = <<>>
  /\ scene = <<>>
  /\ tracker = Undefined
  /\ rounds = <<>>

(***************************************************************************)
(* The initiative tracker, its context menu and its turn indicator.  The   *)
(* handlers talk to the scene through the Owlbear Rodeo SDK: getItems      *)
(* answers with the items as the scene holds them, and updateItems, given  *)
(* items, runs its callback on drafts of those items and sends the scene   *)
(* the top-level fields the callback changed, the whole metadata of an     *)
(* item among them.  The scene handles the requests of the page in the     *)
(* order they were sent, and tells the tracker of every change, which      *)
(* renders the list again.                                                 *)
(***************************************************************************)
\* The ids of the characters of the scene, in the order getItems lists
\* them.
Characters == 1..MaxCharacters

\* character.name: the first character is the player of isPlayer, the
\* others are monsters.
CharacterName(id) ==
  IF id = 1
  THEN <<"M", "i", "r", "a", "b", "e", "l", " ", "M", "i", "r", "a", " ",
         "T", "h", "o", "r", "n", "e">>
  ELSE IF id % 2 = 0 THEN <<"G", "r", "a", "y", " ", "O", "o", "z", "e">>
  ELSE <<"G", "o", "b", "l", "i", "n">>

\* The item id as getItems returns it from items, its metadata being the
\* entry of the tracker, undefined for a character that is not in
\* initiative.
Item(id, items) ==
  [id |-> id, name |-> CharacterName(id), metadata |-> items[id]]

\* isPlayer(character)
isPlayer(character) ==
  character.name
    = <<"M", "i", "r", "a", "b", "e", "l", " ", "M", "i", "r", "a", " ",
        "T", "h", "o", "r", "n", "e">>

\* The values of the initiative inputs.
Initiatives == {<<"1", "0">>, <<"2", "0">>}

\* { initiative: "10", active: false }, which has no statblock.
NewMetadata ==
  [initiative |-> <<"1", "0">>, active |-> FALSE, statblock |-> Undefined]

\* setupInitiativeList before the first change of the scene; activeTurn is
\* the set of the positions of the list that carry the class active-turn,
\* and clicks counts the clicks on the Next Turn button.
NewInitiativeList ==
  [currentTurnIndex |-> 0, sortedItems |-> <<>>, activeTurn |-> {},
   clicks |-> 0]

\* renderList(items): the items with metadata, sorted by falling
\* initiative, items of the same initiative staying in their order;
\* currentTurnIndex moves to the first active item if there is one.
renderList(items, list) ==
  LET listed == {c \in DOMAIN items : items[c] # Undefined}
      Before(d, c) ==
        \/ DecimalValue(items[d].initiative)
             > DecimalValue(items[c].initiative)
        \/ /\ items[d].initiative = items[c].initiative
           /\ d < c
      Place(c) == Cardinality({d \in listed : Before(d, c)}) + 1
      sortedItems ==
        [k \in 1..Cardinality(listed) |->
           LET c == CHOOSE c \in listed : Place(c) = k
           IN  [initiative |-> items[c].initiative,
                name |-> CharacterName(c),
                id |-> c,
                active |-> items[c].active]]
      actives == {k \in 1..Len(sortedItems) : sortedItems[k].active}
      currentTurnIndex ==
        IF actives # {} THEN MinOf(actives) - 1 ELSE list.currentTurnIndex
  IN  [list EXCEPT
         !.currentTurnIndex = currentTurnIndex,
         !.sortedItems = sortedItems,
         !.activeTurn = {i \in 0..(Len(sortedItems) - 1) :
                           i = currentTurnIndex}]

\* OBR.scene.items.updateItems(items, update), drafts being the metadata
\* of the items passed once update has run on them: the metadata of the
\* items whose metadata update changed.
updateItems(items, drafts) ==
  LET changed == {c \in DOMAIN drafts : drafts[c] # items[c]}
  IN  [c \in changed |-> drafts[c]]

\* The requests in flight with request added: an updateItems that changes
\* nothing sends nothing.
Sent(requests, request) ==
  IF request.stage = "updateItems" /\ DOMAIN request.updates = {}
  THEN requests
  ELSE Append(requests, request)

\* A getItems of the handler of a click ("turn") or of an initiative input
\* for the item id, in flight.
GetItems(handler, id, value) ==
  [stage |-> "getItems", handler |-> handler, id |-> id, value |-> value]

\* An updateItems in flight; stores is the set of the items a lookup result
\* of which it stores.
UpdateItems(updates, stores) ==
  [stage |-> "updateItems", updates |-> updates, stores |-> stores]

\* s without its k-th element.
Without(s, k) == SubSeq(s, 1, k - 1) \o SubSeq(s, k + 1, Len(s))

\* onClick(context) of the context menu, context.items being the
\* characters selected: all are added to initiative if none is in it,
\* and all are removed otherwise.
ContextMenuClick ==
  /\ Len(rounds) < MaxRounds
  /\ \E selected \in SUBSET Characters \ {{}} :
       LET addToInitiative == \A c \in selected : scene[c] = Undefined
           updates ==
             IF addToInitiative
             THEN updateItems(scene, [c \in selected |-> NewMetadata])
             ELSE updateItems(scene, [c \in selected |-> Undefined])
       IN  rounds' = Sent(rounds, UpdateItems(updates, {}))
  /\ UNCHANGED <<roller, fetcher, lookups, scene, tracker>>

\* The click listener of the Next Turn button.
NextTurnClick ==
  /\ Len(rounds) < MaxRounds
  /\ tracker.clicks < MaxTurns
  /\ IF Len(tracker.sortedItems) <= 1
     THEN /\ tracker' = [tracker EXCEPT !.clicks = @ + 1]
          /\ UNCHANGED rounds
     ELSE LET next == (tracker.currentTurnIndex + 1)
                        % Len(tracker.sortedItems)
              activeCharacterId == tracker.sortedItems[next + 1].id
          IN  /\ tracker' = [tracker EXCEPT !.currentTurnIndex = next,
                                            !.clicks = @ + 1]
              /\ rounds' = Sent(rounds,
                                GetItems("turn", activeCharacterId, <<>>))
  /\ UNCHANGED <<roller, fetcher, lookups, scene>>

\* The click listener of an entry of the list.
EntryClick ==
  /\ Len(rounds) < MaxRounds
  /\ \E i \in 1..Len(tracker.sortedItems) :
       rounds' = Sent(rounds,
                      GetItems("turn", tracker.sortedItems[i].id, <<>>))
  /\ UNCHANGED <<roller, fetcher, lookups, scene, tracker>>

\* The change listener of the initiative input of an entry.
InitiativeChange ==
  /\ Len(rounds) < MaxRounds
  /\ \E i \in 1..Len(tracker.sortedItems), newValue \in Initiatives :
       /\ newValue # tracker.sortedItems[i].initiative
       /\ rounds' = Sent(rounds,
                         GetItems("initiative", tracker.sortedItems[i].id,
                                  newValue))
  /\ UNCHANGED <<roller, fetcher, lookups, scene, tracker>>

\* The scene answers the oldest request to it, a getItems (the other
\* work in flight are lookups of getMonsterByTokenName), and its callback
\* runs: the callback of a click marks the item of the turn active and
\* every other item with metadata inactive, and calls onTurnChange, the
\* updateTurnIndicator of main.js, with the item as getItems returned it;
\* updateTurnIndicator looks the statblock of a monster up if the item
\* holds none.  The callback of an initiative input sets the initiative.
GetItemsResolves ==
  /\ \E k \in 1..Len(rounds) :
       /\ rounds[k].stage # "lookup"
       /\ \A j \in 1..(k - 1) : rounds[j].stage = "lookup"
  /\ LET k == MinOf({j \in 1..Len(rounds) : rounds[j].stage # "lookup"})
         request == rounds[k]
         items == scene
         activeItem == Item(request.id, items)
         updates ==
           IF request.handler = "turn"
           THEN updateItems(
                  items,
                  [c \in Characters |->
                     IF items[c] = Undefined THEN items[c]
                     ELSE [items[c] EXCEPT !.active = (c = request.id)]])
           ELSE updateItems(
                  items,
                  [c \in Characters |->
                     IF c = request.id /\ items[c] # Undefined
                     THEN [items[c] EXCEPT !.initiative = request.value]
                     ELSE items[c]])
         cached == /\ activeItem.metadata # Undefined
                   /\ activeItem.metadata.statblock # Undefined
         lookup == /\ request.handler = "turn"
                   /\ ~isPlayer(activeItem)
                   /\ ~cached
         updated == Sent(Without(rounds, k), UpdateItems(updates, {}))
     IN  /\ request.stage = "getItems"
         /\ lookup => Len(lookups) < MaxLookups
         /\ rounds' = IF lookup
                      THEN Append(updated,
                                  [stage |-> "lookup", item |-> activeItem])
                      ELSE updated
         /\ lookups' = IF lookup
                       THEN Append(lookups,
                                   [event |-> "lookup", id |-> request.id])
                       ELSE lookups
  /\ UNCHANGED <<roller, fetcher, scene, tracker>>

\* The scene handles the oldest request, an updateItems: the items take
\* the metadata sent, and onChange calls renderList with the items.
UpdateItemsArrives ==
  /\ \E k \in 1..Len(rounds) :
       /\ rounds[k].stage # "lookup"
       /\ \A j \in 1..(k - 1) : rounds[j].stage = "lookup"
  /\ LET k == MinOf({j \in 1..Len(rounds) : rounds[j].stage # "lookup"})
         request == rounds[k]
         items == [c \in Characters |->
                     IF c \in DOMAIN request.updates
                     THEN request.updates[c]
                     ELSE scene[c]]
     IN  /\ request.stage = "updateItems"
         /\ Len(lookups) + Cardinality(request.stores) <= MaxLookups
         /\ scene' = items
         /\ tracker' = renderList(items, tracker)
         /\ rounds' = Without(rounds, k)
         /\ lookups' = IF request.stores = {} THEN lookups
                       ELSE Append(lookups,
                                   [event |-> "stored",
                                    id |-> CHOOSE c \in request.stores :
                                             TRUE])
  /\ UNCHANGED <<roller, fetcher>>

\* getMonsterByTokenName returns to updateTurnIndicator, or throws, and
\* updateTurnIndicator stores the statblock, or null, in the metadata of
\* the item it was called with.
LookupResolves ==
  /\ \E k \in 1..Len(rounds) :
       /\ rounds[k].stage = "lookup"
       /\ LET activeCharacter == rounds[k].item
              id == activeCharacter.id
          IN  \E found \in getMonsterByTokenName(activeCharacter.name,
                                                  index) :
                LET statblock == found.value
                    meta == activeCharacter.metadata
                    updates ==
                      updateItems(
                        (id :> meta),
                        (id :> IF meta = Undefined THEN meta
                               ELSE [meta EXCEPT !.statblock = statblock]))
                IN  /\ fetched' = fetched \o found.fetch
                    /\ rounds' =
                         IF statblock.kind = "error"
                         THEN Without(rounds, k)
                         ELSE Sent(Without(rounds, k),
                                   UpdateItems(updates, {id}))
  /\ UNCHANGED <<roller, index, lookups, scene, tracker>>

(***************************************************************************)
(* The inputs of the model.                                                *)
(***************************************************************************)
Alphabet == {"0", "1", "2", "d", "D", "k", "h", "l", "+", "-", " "}

\* Every string over Alphabet of at most n characters.
Strings(n) == UNION {[1..k -> Alphabet] : k \in 0..n}

\* The notations of the source's comments and of the specification's
\* examples, and variations of them.
Examples ==
  {<<"2", "d", "6", "+", "3">>,
   <<"d", "2", "0">>,
   <<"4", "d", "6", "k", "h", "3">>,
   <<"+", "5">>,
   <<"1", "d", "2", "0">>,
   <<"2", "d", "2", "0", "k", "h", "1">>,
   <<"1", "d", "2", "0", "k", "h", "1">>,
   <<"1", "d", "2", "0", "k", "l", "1">>,
   <<"2", "d", "2", "0", "k", "l", "1">>,
   <<"1", "d", "2", "0", "+", "5">>,
   <<"1", "d", "2", "0", "-", "2">>,
   <<"d", "8">>,
   <<"3", "d", "0", "k", "h", "1">>,
   <<"2", "d", "6", "k", "h", "5">>,
   <<"4", "d", "6", "k", "l", "1">>,
   <<"2", "D", "6", " ", "+", " ", "3">>,
   <<"3", "d", "6", "k", "h", "0">>,
   <<"1", "d", "2", "0", "x">>,
   <<"2", "d", "2", "0", "k", "h", "1", "+", "4">>,
   <<"2", "d", "2", "0", "k", "l", "1", "-", "1">>}

Notations == Strings(MaxLen) \cup Examples

RollNotations ==
  {n \in Strings(MaxRollLen) \cup Examples : DrawCount(n) <= MaxDice}

\* The notations rolled again and again to fill the history: one die with
\* one side, and an invalid notation.
HistoryNotations == {<<"d", "1">>, <<"d">>}

(***************************************************************************)
(* Spec: a caller rolls one notation on a new roller.                      *)
(***************************************************************************)
Init ==
  /\ NewDiceRoller
  /\ NoExtension
  /\ pending \in {Input(n) : n \in RollNotations}

RollPending ==
  /\ pending.some
  /\ \E rnd \in [1..DrawCount(pending.notation) -> RandNums] :
       Roll(pending.notation, rnd)
  /\ pending' = NoInput
  /\ UNCHANGED ui

Next == RollPending \/ ClearHistory \/ Tick

Spec == Init /\ [][Next]_vars

(***************************************************************************)
(* SpecParse: a caller parses one notation.                                *)
(***************************************************************************)
InitParse ==
  /\ NewDiceRoller
  /\ NoExtension
  /\ pending \in {Input(n) : n \in Notations}

ParsePending ==
  /\ pending.some
  /\ Parse(pending.notation)
  /\ pending' = NoInput

NextParse == ParsePending

SpecParse == InitParse /\ [][NextParse]_vars

(***************************************************************************)
(* SpecHistory: a caller rolls again and again, and clears the history.    *)
(***************************************************************************)
InitHistory ==
  /\ NewDiceRoller
  /\ NoExtension
  /\ pending = NoInput

RollAgain ==
  /\ nextRef < MaxHistoryRolls
  /\ \E n \in HistoryNotations :
       \E rnd \in [1..DrawCount(n) -> RandNums] : Roll(n, rnd)
  /\ UNCHANGED <<pending, ui>>

NextHistory == RollAgain \/ ClearHistory

SpecHistory == InitHistory /\ [][NextHistory]_vars

(***************************************************************************)
(* SpecAdvantage: a caller rolls once with advantage or disadvantage.      *)
(***************************************************************************)
ModifierInput(modifier) ==
  [some |-> TRUE, notation |-> <<>>, modifier |-> modifier]

InitAdvantage ==
  /\ NewDiceRoller
  /\ NoExtension
  /\ pending \in {ModifierInput(m) : m \in (0 - MaxModifier)..MaxModifier}

RollAdvantagePending ==
  /\ pending.some
  /\ \E rnd \in [1..2 -> RandNums] : RollAdvantage(pending.modifier, rnd)
  /\ pending' = NoInput
  /\ UNCHANGED ui

RollDisadvantagePending ==
  /\ pending.some
  /\ \E rnd \in [1..2 -> RandNums] : RollDisadvantage(pending.modifier, rnd)
  /\ pending' = NoInput
  /\ UNCHANGED ui

NextAdvantage ==
  RollAdvantagePending \/ RollDisadvantagePending \/ ClearHistory

SpecAdvantage == InitAdvantage /\ [][NextAdvantage]_vars

(***************************************************************************)
(* SpecScan: a caller passes one text to one of the scanner's functions.   *)
(***************************************************************************)
\* The pieces the texts are put together from: the phrases the passes look
\* for, tags with such phrases in their attributes, and link references.
Fragments ==
  {<<"A", "t", "t", "a", "c", "k", ":", " ">>,
   <<"+", "7">>,
   <<" ", "t", "o", " ", "h", "i", "t">>,
   <<"2", "d", "6", "+", "4">>,
   <<"2", "D", "6", " ", "+", " ", "3">>,
   <<"d", "8">>,
   <<"D", "C", " ", "1", "5">>,
   <<" ", "D", "e", "x", " ", "s", "a", "v", "i", "n", "g", " ", "t", "h",
     "r", "o", "w">>,
   <<"<", "b", ">">>,
   <<"<", "i", " ", "t", "i", "t", "l", "e", "=", "\"", "+", "5", " ", "t",
     "o", " ", "h", "i", "t", "\"", ">">>,
   <<"<", "i", " ", "t", "i", "t", "l", "e", "=", "\"", "A", "t", "t", "a",
     "c", "k", ":", " ", "+", "3", "\"", ">">>,
   <<"<", "i", " ", "t", "i", "t", "l", "e", "=", "\"", "D", "C", " ", "1",
     "5", " ", "D", "e", "x", " ", "s", "a", "v", "i", "n", "g", " ", "t",
     "h", "r", "o", "w", "\"", ">">>,
   <<"<", "s", "p", "a", "n", " ", "d", "a", "t", "a", "-", "d", "i", "c",
     "e", "=", "\"", "1", "d", "2", "0", "+", "1", "\"", ">">>,
   <<"[", "F", "i", "r", "e", "]", "(", "x", ".", "m", "d", ")">>,
   <<"[", "x", "]", "(", "a", "(", "b", ")", "2", "d", "6", ")">>,
   <<"<">>,
   <<">">>,
   <<" ">>}

\* Whole descriptions: the example of the specification, and lines like
\* those of a monster's stat block.
ExampleTexts ==
  {<<"<", "i", " ", "t", "i", "t", "l", "e", "=", "\"", "[", "x", "]", "(",
     "y", ")", " ", "2", "d", "6", "\"", ">">>,
   <<"A", "t", "t", "a", "c", "k", ":", " ", "+", "7", " ", "t", "o", " ",
     "h", "i", "t", ",", " ", "d", "e", "a", "l", "s", " ", "2", "d", "6",
     "+", "4", " ", "s", "l", "a", "s", "h", "i", "n", "g">>,
   <<"<", "s", "p", "a", "n", " ", "d", "a", "t", "a", "-", "d", "i", "c",
     "e", "=", "\"", "1", "d", "2", "0", "+", "1", "\"", ">", "1", "d",
     "2", "0", "+", "1", "<", "/", "s", "p", "a", "n", ">">>,
   <<"<", "i", " ", "t", "i", "t", "l", "e", "=", "\"", "D", "C", " ", "1",
     "5", " ", "D", "e", "x", "t", "e", "r", "i", "t", "y", " ", "s", "a",
     "v", "i", "n", "g", " ", "t", "h", "r", "o", "w", "\"", ">", "x", "<",
     "/", "i", ">">>,
   <<"H", "i", "t", ":", " ", "7", " ", "(", "1", "d", "8", " ", "+", " ",
     "3", ")", " ", "p", "i", "e", "r", "c", "i", "n", "g", " ", "d", "a",
     "m", "a", "g", "e", ".">>,
   <<"D", "C", " ", "1", "5", " ", "D", "e", "x", "t", "e", "r", "i", "t",
     "y", " ", "s", "a", "v", "i", "n", "g", " ", "t", "h", "r", "o", "w",
     ",", " ", "t", "a", "k", "i", "n", "g", " ", "2", "2", " ", "(", "4",
     "d", "1", "0", ")", " ", "o", "n", " ", "a", " ", "f", "a", "i", "l",
     "e", "d", " ", "s", "a", "v", "e">>,
   <<"[", "G", "r", "a", "p", "p", "l", "e", "d", "]", "(", "/", "r", "u",
     "l", "e", "s", "/", "c", "o", "n", "d", "i", "t", "i", "o", "n", "s",
     ".", "m", "d", "#", "g", "r", "a", "p", "p", "l", "e", "d", ")", " ",
     "(", "e", "s", "c", "a", "p", "e", " ", "D", "C", " ", "1", "2", ")">>,
   <<"[", "+", "5", " ", "t", "o", " ", "h", "i", "t", "]", "(", "2", "d",
     "6", ")", " ", "a", "n", "d", " ", "[", "D", "C", " ", "1", "3", " ",
     "C", "o", "n", " ", "s", "a", "v", "i", "n", "g", " ", "t", "h", "r",
     "o", "w", "]", "(", "+", "2", " ", "t", "o", " ", "h", "i", "t", ")">>}

\* The texts of at most n fragments.
RECURSIVE FragmentTexts(_)
FragmentTexts(n) ==
  IF n = 0 THEN {<<>>}
  ELSE LET shorter == FragmentTexts(n - 1)
       IN  shorter \cup {t \o f : t \in shorter, f \in Fragments}

Texts == FragmentTexts(MaxFrags) \cup ExampleTexts

Html(text) == [kind |-> "html", text |-> text]

InitScan ==
  /\ NewDiceRoller
  /\ NoExtension
  /\ pending \in {Input(t) : t \in Texts}

\* The frame of a call of a scanner function: the roller and the page are
\* not touched.
Scanned(op, out) ==
  /\ pending.some
  /\ call' = Call(op, pending.notation, <<>>)
  /\ ret' = Html(out)
  /\ pending' = NoInput
  /\ UNCHANGED <<history, now, nextRef, ui, log>>
  /\ UNCHANGED <<fetcher, initiative>>

ConvertObsidianLinksPending ==
  Scanned("convertObsidianLinks", convertObsidianLinks(pending.notation))

WrapAttackBonusesPending ==
  Scanned("wrapAttackBonuses", wrapAttackBonuses(pending.notation))

WrapDiceNotationPending ==
  Scanned("wrapDiceNotation", wrapDiceNotation(pending.notation))

WrapSavingThrowsPending ==
  Scanned("wrapSavingThrows", wrapSavingThrows(pending.notation))

WrapAllDicePending ==
  Scanned("wrapAllDice", wrapAllDice(pending.notation))

NextScan ==
  \/ ConvertObsidianLinksPending
  \/ WrapAttackBonusesPending
  \/ WrapDiceNotationPending
  \/ WrapSavingThrowsPending
  \/ WrapAllDicePending

SpecScan == InitScan /\ [][NextScan]_vars

(***************************************************************************)
(* SpecClick: dice tokens of a container initDiceHandlers was called for   *)
(* are activated by clicks and keys.                                       *)
(***************************************************************************)
\* The data-dice of the tokens: one die of one side, a d20, and a notation
\* parse rejects.
ClickNotations == HistoryNotations \cup {<<"1", "d", "2", "0">>}

Keys == {"Enter", " ", "Tab"}

InitClick ==
  /\ NewDiceRoller
  /\ NoExtension
  /\ pending = NoInput

ClickToken ==
  \E n \in ClickNotations :
    \E rnd \in [1..DrawCount(n) -> RandNums] : Click(n, rnd)

KeydownOnToken ==
  \E key \in Keys, n \in ClickNotations :
    \E rnd \in [1..DrawCount(n) -> RandNums] \cup {<<>>} :
      Keydown(key, n, rnd)

NextClick == ClickToken \/ KeydownOnToken \/ RemovePopup

SpecClick == InitClick /\ [][NextClick]_vars

(***************************************************************************)
(* SpecFetcher: the script of debug.js converts a filename, builds the    *)
(* monster index of a vault and looks tokens up in it.                     *)
(***************************************************************************)
\* The pieces the filenames are put together from.
FilenameFragments ==
  {<<"o", "o", "z", "e">>,
   <<"x", "m", "m">>,
   <<"G">>,
   <<"-">>,
   <<".", "m", "d">>}

\* Every sequence over S of at most n elements.
SeqsUpTo(S, n) == UNION {[1..k -> S] : k \in 0..n}

\* testFilenames of debug.js
testFilenames ==
  {<<"g", "r", "a", "y", "-", "o", "o", "z", "e", "-", "x", "m", "m", ".",
     "m", "d">>,
   <<"a", "n", "c", "i", "e", "n", "t", "-", "r", "e", "d", "-", "d", "r",
     "a", "g", "o", "n", "-", "m", "m", ".", "m", "d">>,
   <<"g", "o", "b", "l", "i", "n", "-", "m", "m", ".", "m", "d">>,
   <<"o", "o", "z", "e", ".", "m", "d">>,
   <<"d", "r", "a", "g", "o", "n", "s", ".", "m", "d">>,
   <<"p", "i", "t", "-", "f", "i", "e", "n", "d", "-", "x", "m", "m", ".",
     "m", "d">>}

\* The filenames of at most MaxFilenameFrags fragments, and testFilenames.
Filenames ==
  {Join(fs, <<>>) : fs \in SeqsUpTo(FilenameFragments, MaxFilenameFrags)}
    \cup testFilenames

\* The items a folder of the vault lists: files of monsters, a note, a
\* picture, a folder with files and a folder the API refuses to list.
FolderItems ==
  {<<"g", "r", "a", "y", "-", "o", "o", "z", "e", "-", "x", "m", "m", ".",
     "m", "d">>,
   <<"g", "o", "b", "l", "i", "n", "-", "m", "m", ".", "m", "d">>,
   <<"G", "o", "b", "l", "i", "n", "-", "x", ".", "m", "d">>,
   <<"o", "o", "z", "e", ".", "m", "d">>,
   <<"m", "a", "p", ".", "p", "n", "g">>,
   <<"b", "e", "a", "s", "t", "/">>,
   <<"i", "m", "g", "/">>}

\* The vaults: the bestiary folder lists at most MaxFiles items, its folder
\* beast two files.
Vaults ==
  {(BESTIARY_PATH :> items) @@
   ((BESTIARY_PATH \o <<"/", "b", "e", "a", "s", "t">>) :>
      <<<<"g", "o", "b", "l", "i", "n", "-", "m", "m", ".", "m", "d">>,
        <<"n", "o", "t", "e", "s", ".", "m", "d">>>>) :
     items \in SeqsUpTo(FolderItems, MaxFiles)}

\* The names data.json can hold statblocks under.
HomebrewNames ==
  {<<"G", "o", "b", "l", "i", "n">>,
   <<"G", "O", "B", "L", "I", "N">>,
   <<"G", "r", "a", "y", " ", "O", "o", "z", "e">>}

\* The names of the tokens looked up.
TokenNames ==
  {<<"G", "o", "b", "l", "i", "n">>,
   <<"g", "o", "b", "l", "i", "n">>,
   <<"G", "r", "a", "y", " ", "O", "o", "z", "e">>,
   <<"o", "o", "z", "e">>,
   <<"G", "a", "n", "d", "a", "l", "f", " ", "t", "h", "e", " ", "P", "l",
     "a", "y", "e", "r", " ", "C", "h", "a", "r", "a", "c", "t", "e", "r">>}

InitFetcher ==
  /\ NewDiceRoller
  /\ NoExtension
  /\ pending \in {Input(f) : f \in Filenames} \cup {NoInput}

\* filenameToMonsterName(filename)
FilenameToMonsterNamePending ==
  /\ pending.some
  /\ call' = Call("filenameToMonsterName", pending.notation, <<>>)
  /\ ret' = filenameToMonsterName(pending.notation)
  /\ pending' = NoInput
  /\ UNCHANGED <<history, now, nextRef, ui, log>>
  /\ UNCHANGED <<fetcher, initiative>>

\* const index = await buildMonsterIndex(), the first call of a script;
\* data.json holds the statblocks of monsters, and call keeps the paths
\* listAllMarkdownFiles returned.
BuildMonsterIndex ==
  /\ ~pending.some
  /\ call.op = "new"
  /\ index = Undefined
  /\ \E monsters \in SeqsUpTo(HomebrewNames, MaxFiles), vault \in Vaults :
       /\ call' = [op |-> "buildMonsterIndex", notation |-> <<>>,
                   rnd |-> <<>>, monsters |-> monsters,
                   files |-> listAllMarkdownFiles(BESTIARY_PATH, vault)]
       /\ index' = buildMonsterIndex(monsters, vault)
  /\ ret' = Undefined
  /\ UNCHANGED <<history, now, nextRef, pending, ui, log>>
  /\ UNCHANGED <<fetched, initiative>>

\* await getMonsterByTokenName(tokenName, index)
GetMonsterByTokenName ==
  /\ index # Undefined
  /\ Len(fetched) < MaxFetches
  /\ \E tokenName \in TokenNames :
       /\ call' = Call("getMonsterByTokenName", tokenName, <<>>)
       /\ \E found \in getMonsterByTokenName(tokenName, index) :
            /\ ret' = found.value
            /\ fetched' = fetched \o found.fetch
  /\ UNCHANGED <<history, now, nextRef, pending, ui, log>>
  /\ UNCHANGED <<index, initiative>>

NextFetcher ==
  \/ FilenameToMonsterNamePending
  \/ BuildMonsterIndex
  \/ GetMonsterByTokenName

SpecFetcher == InitFetcher /\ [][NextFetcher]_vars

(***************************************************************************)
(* SpecTracker: the page of main.js in a scene whose characters are added  *)
(* to and removed from initiative, clicked and edited.                     *)
(***************************************************************************)
\* OBR.onReady of main.js: a dice roller, the index buildMonsterIndex
\* returns for a vault without homebrew monsters and with the file of the
\* gray ooze, and the initiative list of a scene whose characters with
\* metadata are those of listed, none of them active.
OnReady(listed) ==
  /\ NewDiceRoller
  /\ pending = NoInput
  /\ index = buildMonsterIndex(
                <<>>,
                (BESTIARY_PATH
                   :> <<<<"g", "r", "a", "y", "-", "o", "o", "z", "e", "-",
                          "x", "m", "m", ".", "m", "d">>>>))
  /\ fetched = <<>>
  /\ lookups = <<>>
  /\ \E initiatives \in [listed -> Initiatives] :
       /\ scene = [c \in Characters |->
                     IF c \in listed
                     THEN [NewMetadata EXCEPT !.initiative = initiatives[c]]
                     ELSE Undefined]
       /\ tracker = IF listed = {} THEN NewInitiativeList
                    ELSE renderList(scene, NewInitiativeList)
  /\ rounds = <<>>

NextTracker ==
  \/ ContextMenuClick
  \/ NextTurnClick
  \/ EntryClick
  \/ InitiativeChange
  \/ GetItemsResolves
  \/ UpdateItemsArrives
  \/ LookupResolves

SpecTracker == OnReady({}) /\ [][NextTracker]_vars

(***************************************************************************)
(* SpecInitiative: the characters in initiative are clicked and edited,    *)
(* and none is added or removed.                                           *)
(***************************************************************************)
InitInitiative == \E listed \in SUBSET Characters : OnReady(listed)

NextInitiative ==
  \/ NextTurnClick
  \/ EntryClick
  \/ InitiativeChange
  \/ GetItemsResolves
  \/ UpdateItemsArrives
  \/ LookupResolves

SpecInitiative == InitInitiative /\ [][NextInitiative]_vars

(***************************************************************************)
(* SpecNextTurn: the Next Turn button is clicked, and nothing else changes *)
(* the scene.                                                              *)
(***************************************************************************)
NextNextTurn ==
  \/ NextTurnClick
  \/ GetItemsResolves
  \/ UpdateItemsArrives
  \/ LookupResolves

SpecNextTurn == InitInitiative /\ [][NextNextTurn]_vars

(***************************************************************************)
(* The claims.                                                             *)
(***************************************************************************)
\* The last call was a roll that returned a result.
Rolled == call.op = "roll" /\ ret.kind = "result"

\* The descriptor of the notation of the last call.
Parsed == parse(call.notation)

\* The indices of the outcomes of the returned result that are kept.
KeptIndices == {i \in 1..Len(ret.rolls) : ret.rolls[i].kept}

DroppedIndices == {i \in 1..Len(ret.rolls) : ~ret.rolls[i].kept}

\* The sum of the values of the outcomes of rolls at the indices of S.
RECURSIVE SumOfValues(_, _)
SumOfValues(rolls, S) ==
  IF S = {} THEN 0
  ELSE LET i == CHOOSE x \in S : TRUE
       IN  rolls[i].value + SumOfValues(rolls, S \ {i})

AllDigits(s) == \A i \in 1..Len(s) : s[i] \in Digits

\* s is in the language of
\*   [count] "d" sides [("kh"|"kl") keepCount] [("+"|"-") modifierDigits]
\* count being s[1..i-1], sides s[i+1..j-1], the keep rule s[j..k-1] and
\* the modifier s[k..Len(s)].
InDiceGrammar(s) ==
  \E i \in 1..Len(s) : \E j \in (i + 2)..(Len(s) + 1) :
    \E k \in j..(Len(s) + 1) :
      /\ AllDigits(SubSeq(s, 1, i - 1))
      /\ s[i] = "d"
      /\ AllDigits(SubSeq(s, i + 1, j - 1))
      /\ \/ k = j
         \/ /\ k >= j + 3
            /\ SubSeq(s, j, j + 1) \in {<<"k", "h">>, <<"k", "l">>}
            /\ AllDigits(SubSeq(s, j + 2, k - 1))
      /\ \/ k = Len(s) + 1
         \/ /\ k + 1 <= Len(s)
            /\ s[k] \in {"+", "-"}
            /\ AllDigits(SubSeq(s, k + 1, Len(s)))

\* s is a bare integer with an optional sign.
IsBareInteger(s) ==
  \/ Len(s) >= 1 /\ AllDigits(s)
  \/ Len(s) >= 2 /\ s[1] \in {"+", "-"} /\ AllDigits(Tail(s))

\* C1: the history never holds more than maxHistory results, and after
\* maxHistory + 1 successful rolls without a clear the result of the first
\* of them is no longer in the history and the result of the last is at its
\* head.
C1_HistoryBounded ==
  /\ Len(history) <= maxHistory
  /\ Len(log) = maxHistory + 1 =>
       /\ \A i \in 1..Len(history) : history[i].ref # log[1].ref
       /\ history[1] = log[Len(log)]

C1_Witness == Len(log) = maxHistory + 1 /\ Len(history) = maxHistory

\* C2: a successful roll puts the result it returns at the head of the
\* history, moves every retained result one position towards the end with
\* its content unchanged, and drops at most the oldest result, and only
\* when the history is full; a roll that throws leaves the history alone.
C2_NewestFirstAppendOnly ==
  [][/\ nextRef' # nextRef =>
          /\ ret'.kind = "result"
          /\ history'[1] = ret'
          /\ Len(history') = Min2(Len(history) + 1, maxHistory)
          /\ \A i \in 2..Len(history') : history'[i] = history[i - 1]
     /\ (call'.op = "roll" /\ ret'.kind = "error") => history' = history
    ]_vars

C2_Witness ==
  /\ Rolled
  /\ Len(log) = maxHistory + 2
  /\ history[1] = ret
  /\ history[maxHistory] = log[3]

\* C3: the critical flag is null for every roll whose expression is not
\* exactly one twenty-sided die with no keep rule.
C3_CriticalOnlyPlainD20 ==
  Rolled =>
    ((Parsed.count # 1 \/ Parsed.sides # 20 \/ Parsed.keep # Null)
       => ret.critical = "null")

\* C4: for one twenty-sided die with no keep rule and any modifier the
\* critical flag is success exactly when the die shows 20, fumble exactly
\* when it shows 1, and null for 2..19.
C4_CriticalOfD20 ==
  (Rolled /\ Parsed.count = 1 /\ Parsed.sides = 20 /\ Parsed.keep = Null) =>
    /\ Len(ret.rolls) = 1
    /\ ret.critical = "success" <=> ret.rolls[1].value = 20
    /\ ret.critical = "fumble" <=> ret.rolls[1].value = 1
    /\ ret.critical = "null" <=> ret.rolls[1].value \in 2..19

C4_Witness ==
  /\ Rolled
  /\ Parsed.count = 1 /\ Parsed.sides = 20 /\ Parsed.keep = Null
  /\ Parsed.modifier # 0
  /\ ret.critical = "success"

\* C5: every descriptor parse returns has count 0 and no keep rule when its
\* sides are 0.
C5_ZeroSidesMeansNoDice ==
  (call.op = "parse" /\ ret.kind = "descriptor" /\ ret.sides = 0) =>
    (ret.count = 0 /\ ret.keep = Null)

\* C6: parse throws exactly for the inputs that, lowercased and with their
\* whitespace removed, are neither in the dice grammar nor a bare integer,
\* and returns a descriptor for every other input.
C6_ParseRaisesOutsideGrammar ==
  call.op = "parse" =>
    /\ ret.kind \in {"error", "descriptor"}
    /\ ret.kind = "error" <=>
         ~(\/ InDiceGrammar(Cleaned(call.notation))
           \/ IsBareInteger(Cleaned(call.notation)))

C6_Witness ==
  /\ call.op = "parse"
  /\ ret.kind = "error"
  /\ call.notation = <<"d", "2", "+">>

\* C7: with a keep rule exactly min(keep.count, count) outcomes are kept,
\* a keep count above the number of dice raising no error; without a keep
\* rule every outcome is kept.
C7_KeptCount ==
  (call.op = "roll" /\ Parsed.kind = "descriptor") =>
    /\ ret.kind = "result"
    /\ Len(ret.rolls) = Parsed.count
    /\ IF Parsed.keep # Null
       THEN Cardinality(KeptIndices) = Min2(Parsed.keep.count, Parsed.count)
       ELSE DroppedIndices = {}

C7_Witness ==
  /\ Rolled
  /\ Parsed.keep # Null
  /\ Parsed.count >= 2
  /\ Parsed.keep.count > Parsed.count
  /\ DroppedIndices = {}

\* C8: no dropped die is strictly better than a kept die (higher for
\* highest, lower for lowest), and of two dice of equal value the later
\* draw is never kept while the earlier is dropped; 4d6kh3 drawing
\* 2, 5, 1, 6 keeps 2, 5 and 6 and drops 1.
C8_KeptAreBestEarliest ==
  (Rolled /\ Parsed.keep # Null) =>
    /\ \A i \in KeptIndices : \A j \in DroppedIndices :
         /\ Parsed.keep.type = "highest" =>
              ret.rolls[j].value <= ret.rolls[i].value
         /\ Parsed.keep.type = "lowest" =>
              ret.rolls[j].value >= ret.rolls[i].value
         /\ ret.rolls[j].value = ret.rolls[i].value => i < j
    /\ (/\ call.notation = <<"4", "d", "6", "k", "h", "3">>
        /\ [i \in 1..Len(ret.rolls) |-> ret.rolls[i].value] = <<2, 5, 1, 6>>)
         => (KeptIndices = {1, 2, 4} /\ ret.diceTotal = 13)

C8_Witness ==
  /\ Rolled
  /\ Parsed.keep # Null
  /\ \E i \in KeptIndices : \E j \in DroppedIndices :
       ret.rolls[j].value = ret.rolls[i].value /\ Parsed.sides > 1

\* C9: every outcome of a roll of dice with one side or more lies in
\* 1..sides.
C9_ValuesInRange ==
  (Rolled /\ Parsed.sides >= 1) =>
    \A i \in 1..Len(ret.rolls) : ret.rolls[i].value \in 1..Parsed.sides

C9_Witness ==
  /\ Rolled
  /\ Parsed.sides = 20
  /\ \E i, j \in 1..Len(ret.rolls) :
       ret.rolls[i].value = 20 /\ ret.rolls[j].value = 1

\* C10: diceTotal is the sum of the values of the kept outcomes alone, and
\* total is diceTotal plus the signed modifier of the descriptor.
C10_Totals ==
  Rolled =>
    /\ ret.diceTotal = SumOfValues(ret.rolls, KeptIndices)
    /\ ret.total = ret.diceTotal + Parsed.modifier
    /\ ret.modifier = Parsed.modifier

C10_Witness ==
  /\ Rolled
  /\ DroppedIndices # {}
  /\ KeptIndices # {}
  /\ Parsed.modifier < 0
  /\ ret.total # SumOfValues(ret.rolls, 1..Len(ret.rolls))

\* An integer written with an explicit sign and no leading zero: the
\* string of a sign and at most three digits that parseInt reads as m.
SignedDecimal(m) ==
  CHOOSE str \in UNION {[1..k -> Digits \cup {"+", "-"}] : k \in 2..4} :
    /\ str[1] = (IF m < 0 THEN "-" ELSE "+")
    /\ AllDigits(Tail(str))
    /\ Len(str) > 2 => str[2] # "0"
    /\ parseInt(str) = m

\* C11: rollAdvantage(m) returns what roll returns for 2d20kh1 followed by
\* m with an explicit sign, on the same draws, and rollDisadvantage(m) what
\* roll returns for 2d20kl1 followed by signed m: two d20 are drawn in
\* order, the higher (lower) is kept, the earlier on a tie, the total is
\* that die plus m, no critical is reported, and the result is recorded at
\* the head of the history.
C11_AdvantageIsRoll ==
  call.op \in {"rollAdvantage", "rollDisadvantage"} =>
    LET adv == call.op = "rollAdvantage"
        notation == <<"2", "d", "2", "0", "k">>
                    \o (IF adv THEN <<"h">> ELSE <<"l">>)
                    \o <<"1">> \o SignedDecimal(call.modifier)
        v1 == rollDie(20, call.rnd[1])
        v2 == rollDie(20, call.rnd[2])
        firstKept == IF adv THEN v1 >= v2 ELSE v1 <= v2
    IN  /\ ret.kind = "result"
        /\ ret = RollResult(notation, parse(notation), call.rnd,
                            ret.ref, ret.timestamp)
        /\ ret.rolls = <<[value |-> v1, kept |-> firstKept],
                         [value |-> v2, kept |-> ~firstKept]>>
        /\ ret.diceTotal = (IF firstKept THEN v1 ELSE v2)
        /\ ret.total = ret.diceTotal + call.modifier
        /\ ret.critical = "null"
        /\ history = <<ret>>

C11_Witness ==
  /\ call.op = "rollDisadvantage"
  /\ call.modifier = 0 - 10
  /\ ret.kind = "result"
  /\ ret.rolls[1].value = 20
  /\ ret.rolls[2].kept
  /\ ret.total = ret.rolls[2].value - 10

\* The first position at or after i where s holds sub, or 0.
Find(s, sub, i) ==
  LET at == {p \in i..(Len(s) - Len(sub) + 1) :
               SubSeq(s, p, p + Len(sub) - 1) = sub}
  IN  IF at = {} THEN 0 ELSE MinOf(at)

\* The tags of s from position i on, in order: the regions <...> that
\* text.split(/(<[^>]+>)/) delimits.
RECURSIVE Tags(_, _)
Tags(s, i) ==
  LET starts == {p \in i..Len(s) : TagMatch(s, p).matched}
  IN  IF starts = {} THEN <<>>
      ELSE LET p == MinOf(starts)
               m == TagMatch(s, p)
           IN  <<SubSeq(s, p, m.last)>> \o Tags(s, m.last + 1)

\* The strings of subs occur in s from position i on, in order and without
\* overlap.
RECURSIVE OccurInOrder(_, _, _)
OccurInOrder(subs, s, i) ==
  IF subs = <<>> THEN TRUE
  ELSE LET p == Find(s, Head(subs), i)
       IN  p # 0 /\ OccurInOrder(Tail(subs), s, p + Len(Head(subs)))

\* The last call was op and returned a text.
Scan(op) == call.op = op /\ ret.kind = "html"

\* C12: wrapAllDice passes every tag of its input through unmodified: each
\* tag of the input appears character for character in the output, in
\* order, with no marker inserted inside it by any pass.
C12_TagsPassThrough ==
  Scan("wrapAllDice") => OccurInOrder(Tags(call.notation, 1), ret.text, 1)

\* The string t holds a dice notation.
CarriesDice(t) == \E p \in 1..Len(t) : DiceTextMatch(t, p).matched

\* The tags of the input that carry a dice notation in their text.
DiceTags == SelectSeq(Tags(call.notation, 1), CarriesDice)

\* C13: a tag whose attribute value holds a dice notation, such as
\* <span data-dice="1d20+1">, is emitted unchanged by wrapDiceNotation and
\* by wrapAllDice: no dice marker is made of the characters between its
\* "<" and its ">".
C13_DiceInTagNotWrapped ==
  Scan("wrapDiceNotation") \/ Scan("wrapAllDice") =>
    OccurInOrder(DiceTags, ret.text, 1)

\* s holds the characters of lit at i.
Holds(s, i, lit) ==
  /\ i >= 1
  /\ i + Len(lit) - 1 <= Len(s)
  /\ SubSeq(s, i, i + Len(lit) - 1) = lit

\* The number of positions where s holds lit.
Occurrences(s, lit) == Cardinality({p \in 1..Len(s) : Holds(s, p, lit)})

\* <span class=": how the opening tag of every marker starts.
SpanPrefix == SubSeq(KeywordOpen, 1, 13)

\* The position of the ">" of the attribute marker that starts at i with
\* open, holds a value without quote or angle bracket, and goes on with
\* openEnd; 0 when there is none.
AttributeMarkerEnd(s, i, open, openEnd) ==
  LET value == i + Len(open)
      quote == IndexOf(s, "\"", value)
  IN  IF /\ Holds(s, i, open)
         /\ quote # 0
         /\ \A k \in value..(quote - 1) : s[k] \notin {"<", ">"}
         /\ Holds(s, quote, openEnd)
      THEN quote + Len(openEnd) - 1
      ELSE 0

\* The position of the ">" of the opening tag of a marker that starts at i,
\* or 0 when no whole opening tag of a marker starts at i.
MarkerEnd(s, i) ==
  IF Holds(s, i, KeywordOpen) THEN i + Len(KeywordOpen) - 1
  ELSE Max({0, AttributeMarkerEnd(s, i, DiceOpen, DiceOpenEnd),
               AttributeMarkerEnd(s, i, DcOpen, DcOpenEnd)})

\* The opening tags of the markers of s from position i on, in order.
RECURSIVE MarkerOpens(_, _)
MarkerOpens(s, i) ==
  LET starts == {p \in i..Len(s) : MarkerEnd(s, p) # 0}
  IN  IF starts = {} THEN <<>>
      ELSE LET p == MinOf(starts)
           IN  <<SubSeq(s, p, MarkerEnd(s, p))>>
               \o MarkerOpens(s, MarkerEnd(s, p) + 1)

\* The number of positions where s holds <span class=" and no whole
\* opening tag of a marker.
BrokenMarkers(s) ==
  Cardinality({p \in 1..Len(s) :
                 Holds(s, p, SpanPrefix) /\ MarkerEnd(s, p) = 0})

\* The text after each pass of wrapAllDice(text), the two replaces of
\* wrapAttackBonuses taken one by one.
Passes(text) ==
  LET links == convertObsidianLinks(text)
      attack == ReplaceAttackPrefix(links, 1)
      toHit == ReplaceToHit(attack, 1)
      dice == wrapDiceNotation(toHit)
      saves == wrapSavingThrows(dice)
  IN  <<links, attack, toHit, dice, saves>>

\* C14: wrapAllDice runs link conversion, the attack-bonus patterns, the
\* plain-dice pattern and the saving-throw pattern in this order, and for
\* an input without tags every marker a pass inserts is still whole after
\* each later pass: the output holds no marker inside the opening tag of
\* another.
C14_PassesKeepMarkers ==
  Scan("wrapAllDice") /\ Tags(call.notation, 1) = <<>> =>
    LET after == Passes(call.notation)
    IN  /\ ret.text = after[5]
        /\ \A k \in 1..4 :
             OccurInOrder(MarkerOpens(after[k], 1), after[k + 1], 1)
        /\ BrokenMarkers(ret.text) = Occurrences(call.notation, SpanPrefix)

C14_Witness ==
  /\ Scan("wrapAllDice")
  /\ Tags(call.notation, 1) = <<>>
  /\ Len(MarkerOpens(Passes(call.notation)[2], 1)) = 1
  /\ Len(MarkerOpens(Passes(call.notation)[4], 1)) = 2
  /\ Len(MarkerOpens(ret.text, 1)) = 2

\* The position of the ")" that closes a "(" when depth of them are open
\* at i, or 0.
RECURSIVE CloseOf(_, _, _)
CloseOf(s, i, depth) ==
  IF i > Len(s) THEN 0
  ELSE IF s[i] = "(" THEN CloseOf(s, i + 1, depth + 1)
  ELSE IF s[i] # ")" THEN CloseOf(s, i + 1, depth)
  ELSE IF depth = 1 THEN i
  ELSE CloseOf(s, i + 1, depth - 1)

\* A reference [label](target) at i, the target reaching to the ")" that
\* closes its "(".
ReferenceAt(s, i) ==
  IF ~CharAt(s, i, "[") THEN NoMatch
  ELSE LET close == IndexOf(s, "]", i + 1)
       IN  IF close < i + 2 \/ ~CharAt(s, close + 1, "(") THEN NoMatch
           ELSE LET paren == CloseOf(s, close + 2, 1)
                IN  IF paren < close + 3 THEN NoMatch
                    ELSE [matched |-> TRUE, close |-> close, last |-> paren]

\* s from position i on, every reference replaced by the keyword span of
\* its label.
RECURSIVE LabelsOnly(_, _)
LabelsOnly(s, i) ==
  LET starts == {p \in i..Len(s) : ReferenceAt(s, p).matched}
  IN  IF starts = {} THEN SubSeq(s, i, Len(s))
      ELSE LET p == MinOf(starts)
               m == ReferenceAt(s, p)
           IN  SubSeq(s, i, p - 1)
               \o KeywordSpan(SubSeq(s, p + 1, m.close - 1))
               \o LabelsOnly(s, m.last + 1)

\* C15: of every reference [label](target) of its input, wrapAllDice emits
\* the label alone, as a keyword span; no character of the target reaches
\* the output as a token or as text, also when the target holds
\* parentheses: the output is what the later passes make of the text with
\* every reference replaced by the keyword span of its label.
C15_TargetsDropped ==
  Scan("wrapAllDice") =>
    ret.text = wrapSavingThrows(
                 wrapDiceNotation(
                   wrapAttackBonuses(LabelsOnly(call.notation, 1))))

\* C16: a roll of a notation whose descriptor has one die or more and zero
\* sides, such as 2d0, raises an error: it returns no result and records
\* nothing in the history of the new roller.
C16_ZeroSidesFailsFast ==
  /\ call.op = "roll"
  /\ parse(call.notation).kind = "descriptor"
  /\ parse(call.notation).count >= 1
  /\ parse(call.notation).sides = 0
  => ret.kind = "error" /\ history = <<>>

\* C17: the notation of a descriptor that parse returns, whatever the
\* letter case and the whitespace of the notation parsed, is accepted by
\* parse, and its descriptor has the same notation, count, sides, keep rule
\* and modifier.
C17_ParseOfCanonical ==
  call.op = "parse" /\ ret.kind = "descriptor" =>
    LET again == parse(ret.notation)
    IN  /\ again.kind = "descriptor"
        /\ again.notation = ret.notation
        /\ again.count = ret.count
        /\ again.sides = ret.sides
        /\ again.keep = ret.keep
        /\ again.modifier = ret.modifier

C17_Witness ==
  /\ call.op = "parse"
  /\ call.notation = <<"2", "D", "6", " ", "+", " ", "3">>
  /\ ret.kind = "descriptor"
  /\ ret.notation = <<"2", "d", "6", "+", "3">>
  /\ parse(ret.notation) = ret

\* The token of the opening tag of a marker: its kind and the value of its
\* data-dice or data-dc attribute.
TokenOf(tag) ==
  IF Holds(tag, 1, DiceOpen)
  THEN [kind |-> "dice",
        value |-> SubSeq(tag, Len(DiceOpen) + 1, Len(tag) - Len(DiceOpenEnd))]
  ELSE IF Holds(tag, 1, DcOpen)
  THEN [kind |-> "dc",
        value |-> SubSeq(tag, Len(DcOpen) + 1, Len(tag) - Len(DcOpenEnd))]
  ELSE [kind |-> "keyword", value |-> <<>>]

IsToken(token) == token.kind # "keyword"

\* The tokens of an annotated text, from left to right.
Tokens(s) ==
  LET opens == MarkerOpens(s, 1)
  IN  SelectSeq([k \in 1..Len(opens) |-> TokenOf(opens[k])], IsToken)

\* "Attack: +7 to hit, deals 2d6+4 slashing"
AttackExample ==
  <<"A", "t", "t", "a", "c", "k", ":", " ", "+", "7", " ", "t", "o", " ",
    "h", "i", "t", ",", " ", "d", "e", "a", "l", "s", " ", "2", "d", "6",
    "+", "4", " ", "s", "l", "a", "s", "h", "i", "n", "g">>

\* C18 as stated: scanning "Attack: +7 to hit, deals 2d6+4 slashing" yields
\* three tokens, from left to right an attack-bonus token of notation
\* 1d20+7 and then a plain-dice token of notation 2d6+4, and the word
\* "deals" is left as it is.
C18_ThreeTokens ==
  Scan("wrapAllDice") /\ call.notation = AttackExample =>
    /\ Len(Tokens(ret.text)) = 3
    /\ Tokens(ret.text)[1] = [kind |-> "dice",
                              value |-> <<"1", "d", "2", "0", "+", "7">>]
    /\ Tokens(ret.text)[Len(Tokens(ret.text))]
         = [kind |-> "dice", value |-> <<"2", "d", "6", "+", "4">>]
    /\ Occurrences(ret.text, <<"d", "e", "a", "l", "s">>) = 1

\* C18, amended: scanning "Attack: +7 to hit, deals 2d6+4 slashing" yields
\* two tokens, an attack-bonus token of notation 1d20+7 around "+7" and a
\* plain-dice token of notation 2d6+4 around "2d6+4"; the bonus, which both
\* attack patterns match, is wrapped once, and the text around the tokens,
\* the word "deals" in it, is left as it is.
C18_TwoTokens ==
  Scan("wrapAllDice") /\ call.notation = AttackExample =>
    /\ Tokens(ret.text)
         = <<[kind |-> "dice", value |-> <<"1", "d", "2", "0", "+", "7">>],
             [kind |-> "dice", value |-> <<"2", "d", "6", "+", "4">>]>>
    /\ ret.text
         = SubSeq(AttackExample, 1, 8)
           \o DiceSpan(<<"1", "d", "2", "0", "+", "7">>, <<"+", "7">>)
           \o SubSeq(AttackExample, 11, 25)
           \o DiceSpan(<<"2", "d", "6", "+", "4">>,
                       <<"2", "d", "6", "+", "4">>)
           \o SubSeq(AttackExample, 31, 39)

C18_Witness ==
  /\ Scan("wrapAllDice")
  /\ call.notation = AttackExample
  /\ AttackPrefixMatch(call.notation, 1).matched
  /\ ToHitMatch(call.notation, 9).matched
  /\ Len(Tokens(ret.text)) = 2

\* A dice or saving-throw marker opens at i.
TokenAt(s, i) == MarkerEnd(s, i) # 0 /\ ~Holds(s, i, KeywordOpen)

\* s from position i on without the tags of its dice and saving-throw
\* markers: the opening tag and the </span> that follows it.
RECURSIVE StripMarkers(_, _)
StripMarkers(s, i) ==
  LET starts == {p \in i..Len(s) : TokenAt(s, p)}
  IN  IF starts = {} THEN SubSeq(s, i, Len(s))
      ELSE LET p == MinOf(starts)
               content == MarkerEnd(s, p) + 1
               close == Find(s, SpanClose, content)
           IN  SubSeq(s, i, p - 1)
               \o (IF close = 0 THEN StripMarkers(s, content)
                   ELSE SubSeq(s, content, close - 1)
                        \o StripMarkers(s, close + Len(SpanClose)))

\* No pass finds a match in s.
NothingToWrap(s) ==
  \A p \in 1..Len(s) :
    /\ ~LinkMatch(s, p).matched
    /\ ~AttackPrefixMatch(s, p).matched
    /\ ~ToHitMatch(s, p).matched
    /\ ~DiceTextMatch(s, p).matched
    /\ ~SavingThrowMatch(s, p).matched

\* The text holds no link reference and no marker of its own.
PlainText(s) ==
  /\ \A p \in 1..Len(s) : ~LinkMatch(s, p).matched
  /\ MarkerOpens(s, 1) = <<>>

\* C19: for a text without link references, the output of wrapAllDice
\* without the tags of the inserted markers is the text, each match kept
\* character for character inside its marker; when no pattern matches, the
\* output is the text.
C19_OnlyMarkersInserted ==
  Scan("wrapAllDice") =>
    /\ PlainText(call.notation) =>
         StripMarkers(ret.text, 1) = call.notation
    /\ NothingToWrap(call.notation) => ret.text = call.notation

C19_Witness ==
  /\ Scan("wrapAllDice")
  /\ PlainText(call.notation)
  /\ Holds(call.notation, 1, <<"2", "D", "6", " ", "+", " ", "3">>)
  /\ Len(Tokens(ret.text)) = 2
  /\ Tokens(ret.text)[1].value = <<"2", "D", "6", "+", "3">>
  /\ StripMarkers(ret.text, 1) = call.notation

\* The step is an activation of a dice token: a click on it, or Enter or
\* the space bar pressed on it.
Activation ==
  /\ ui'.activations = ui.activations + 1
  /\ call'.op = "click" \/ (call'.op = "keydown" /\ call'.key # "Tab")

\* C20: an activation of a token whose notation parse rejects is caught in
\* the click listener: the error is written to the console, the history is
\* as it was, no popup is shown and no diceRolled event is dispatched; an
\* activation of a token with a valid notation, also after such a failure,
\* rolls, records the result at the head of the history, shows it and
\* dispatches it.
C20_ParseErrorCaught ==
  [][Activation =>
       IF parse(call'.notation).kind = "error"
       THEN /\ ret' = parse(call'.notation)
            /\ history' = history
            /\ ui'.popup = ui.popup
            /\ ui'.shown = ui.shown
            /\ ui'.events = ui.events
            /\ ui'.errors = Append(ui.errors, ret')
       ELSE /\ ret'.kind = "result"
            /\ history' = <<ret'>> \o history
            /\ ui'.popup = ret'
            /\ ui'.shown = ui.shown + 1
            /\ ui'.events = Append(ui.events, ret')
            /\ ui'.errors = ui.errors]_vars

C20_Witness ==
  /\ call.op = "click"
  /\ ret.kind = "result"
  /\ Len(ui.errors) = 1
  /\ ui.activations = 2
  /\ history = <<ret>>
  /\ ui.popup = ret
  /\ ui.events = <<ret>>

\* The number a string of decimal digits writes.
RECURSIVE NumberOf(_)
NumberOf(ds) ==
  IF ds = <<>> THEN 0
  ELSE 10 * NumberOf(SubSeq(ds, 1, Len(ds) - 1))
       + (CHOOSE v \in 0..9 : NaturalToString(v) = <<ds[Len(ds)]>>)

\* The integer a sign and a string of decimal digits write.
SignedNumberOf(s) ==
  IF s[1] = "-" THEN 0 - NumberOf(Tail(s))
  ELSE IF s[1] = "+" THEN NumberOf(Tail(s))
  ELSE NumberOf(s)

\* C21: for an accepted input parse returns the decomposition of the
\* grammar: count is the leading integer, or 1 when there is none, sides
\* the integer after d, keep the rule highest or lowest with its number for
\* khn and kln and null without one, modifier the signed integer at the end
\* or 0; a bare integer with or without a sign gives count 0, sides 0, no
\* keep rule and the integer as modifier.
C21_ParseDecomposes ==
  call.op = "parse" /\ ret.kind = "descriptor" =>
    LET s == Cleaned(call.notation)
    IN  \/ /\ IsBareInteger(s)
           /\ ret.count = 0 /\ ret.sides = 0 /\ ret.keep = Null
           /\ ret.modifier = SignedNumberOf(s)
        \/ \E i \in 1..Len(s) : \E j \in (i + 2)..(Len(s) + 1) :
             \E k \in j..(Len(s) + 1) :
               /\ AllDigits(SubSeq(s, 1, i - 1))
               /\ s[i] = "d"
               /\ AllDigits(SubSeq(s, i + 1, j - 1))
               /\ ret.count
                    = (IF i = 1 THEN 1 ELSE NumberOf(SubSeq(s, 1, i - 1)))
               /\ ret.sides = NumberOf(SubSeq(s, i + 1, j - 1))
               /\ \/ k = j /\ ret.keep = Null
                  \/ /\ k >= j + 3
                     /\ SubSeq(s, j, j + 1) \in {<<"k", "h">>, <<"k", "l">>}
                     /\ AllDigits(SubSeq(s, j + 2, k - 1))
                     /\ ret.keep
                          = [kind |-> "keep",
                             type |-> IF s[j + 1] = "h" THEN "highest"
                                      ELSE "lowest",
                             count |-> NumberOf(SubSeq(s, j + 2, k - 1))]
               /\ \/ k = Len(s) + 1 /\ ret.modifier = 0
                  \/ /\ k + 1 <= Len(s)
                     /\ s[k] \in {"+", "-"}
                     /\ AllDigits(SubSeq(s, k + 1, Len(s)))
                     /\ ret.modifier = SignedNumberOf(SubSeq(s, k, Len(s)))

C21_Witness ==
  /\ call.op = "parse"
  /\ call.notation = <<"4", "d", "6", "k", "h", "3">>
  /\ ret.kind = "descriptor"
  /\ ret.count = 4 /\ ret.sides = 6 /\ ret.modifier = 0
  /\ ret.keep = [kind |-> "keep", type |-> "highest", count |-> 3]

\* C22: the rolls of a result are as many as the count of the descriptor,
\* the i-th of them holding the value of the i-th draw; a keep rule sets
\* kept flags and neither reorders nor removes nor alters the values.
C22_OutcomesInDrawOrder ==
  Rolled =>
    /\ Len(ret.rolls) = Parsed.count
    /\ Len(call.rnd) = Parsed.count
    /\ \A i \in 1..Len(ret.rolls) :
         ret.rolls[i].value
           = ((call.rnd[i] * Parsed.sides) \div RandDenom) + 1

C22_Witness ==
  /\ Rolled
  /\ Parsed.keep # Null
  /\ Parsed.keep.type = "highest"
  /\ Len(ret.rolls) >= 3
  /\ ret.rolls[1].value < ret.rolls[2].value
  /\ ret.rolls[3].value < ret.rolls[1].value
  /\ ~ret.rolls[3].kept
  /\ ret.rolls[2].kept

\* The values of the data-dice attributes of s: what stands between each
\* data-dice=" of a dice marker and the next quote.
DataDiceValues(s) ==
  {SubSeq(s, p + Len(DiceOpen), IndexOf(s, "\"", p + Len(DiceOpen)) - 1) :
     p \in {q \in 1..Len(s) : Holds(s, q, DiceOpen)}}

\* C23: parse accepts every notation the scanner attaches to a token: each
\* data-dice value in the output of wrapAttackBonuses, of wrapDiceNotation
\* and of wrapAllDice is a string parse returns a descriptor for.
C23_TokensParse ==
  Scan("wrapAttackBonuses") \/ Scan("wrapDiceNotation")
    \/ Scan("wrapAllDice") =>
    \A v \in DataDiceValues(ret.text) : parse(v).kind = "descriptor"

C23_Witness ==
  /\ Scan("wrapAllDice")
  /\ DataDiceValues(call.notation) = {}
  /\ DataDiceValues(ret.text)
       = {<<"2", "D", "6", "+", "3">>, <<"d", "8">>}

AllSpaces(s) == \A i \in 1..Len(s) : IsSpace(s[i])

AllWord(s) == \A i \in 1..Len(s) : IsWord(s[i])

\* The integers v for which s holds, at p, DC, whitespace or none, v,
\* whitespace, a word, whitespace and "saving throw", v not going on with
\* a further digit.
SavingThrowValues(s, p) ==
  IF ~HasAt(s, p, <<"d", "c">>) THEN {}
  ELSE LET Followed(b) ==
             \E c \in (b + 1)..Len(s) :
               /\ AllSpaces(SubSeq(s, b, c - 1))
               /\ \E d \in (c + 1)..Len(s) :
                    /\ AllWord(SubSeq(s, c, d - 1))
                    /\ \E e \in (d + 1)..Len(s) :
                         /\ AllSpaces(SubSeq(s, d, e - 1))
                         /\ HasAt(s, e, <<"s", "a", "v", "i", "n", "g", " ",
                                          "t", "h", "r", "o", "w">>)
           Values(a) ==
             {SubSeq(s, a, b - 1) :
                b \in {x \in (a + 1)..(Len(s) + 1) :
                         AllDigits(SubSeq(s, a, x - 1)) /\ Followed(x)}}
       IN  UNION {Values(a) :
                    a \in {x \in (p + 2)..Len(s) :
                             AllSpaces(SubSeq(s, p + 2, x - 1))}}

\* The integers of the saving throws of s from position i on, in order.
RECURSIVE SavingThrows(_, _)
SavingThrows(s, i) ==
  LET starts == {p \in i..Len(s) : SavingThrowValues(s, p) # {}}
  IN  IF starts = {} THEN <<>>
      ELSE LET p == MinOf(starts)
           IN  <<CHOOSE v \in SavingThrowValues(s, p) : TRUE>>
               \o SavingThrows(s, p + 1)

IsDcToken(token) == token.kind = "dc"

\* C24: wrapSavingThrows marks the integer of every "DC <integer> <word>
\* saving throw" of the text, and nothing else, as a saving-throw token
\* that carries the integer; "DC", the word and "saving throw" stay plain
\* text around the marker, and an integer after DC that no word and
\* "saving throw" follow is not marked.
C24_SavingThrowsMarked ==
  Scan("wrapSavingThrows") /\ MarkerOpens(call.notation, 1) = <<>> =>
    /\ Tokens(ret.text)
         = [k \in 1..Len(SavingThrows(call.notation, 1)) |->
              [kind |-> "dc", value |-> SavingThrows(call.notation, 1)[k]]]
    /\ StripMarkers(ret.text, 1) = call.notation
    /\ \A p \in 1..Len(ret.text) :
         Holds(ret.text, p, DcOpen) =>
           LET value == SubSeq(ret.text, p + Len(DcOpen),
                               MarkerEnd(ret.text, p) - Len(DcOpenEnd))
           IN  Holds(ret.text, MarkerEnd(ret.text, p) + 1,
                     value \o SpanClose)

C24_Witness ==
  /\ Scan("wrapSavingThrows")
  /\ ret.text
       = <<"D", "C", " ">> \o DcSpan(<<"1", "5">>)
         \o <<" ", "D", "e", "x", " ", "s", "a", "v", "i", "n", "g", " ",
              "t", "h", "r", "o", "w">>
  /\ SavingThrows(call.notation, 1) = <<<<"1", "5">>>>

\* The part of a path after its last slash.
Basename(path) ==
  LET slashes == {i \in 1..Len(path) : path[i] = "/"}
  IN  IF slashes = {} THEN path
      ELSE SubSeq(path, Max(slashes) + 1, Len(path))

\* The filename without its last three characters, the extension.
Stem(filename) == SubSeq(filename, 1, Len(filename) - 3)

Dashes(s) == {i \in 1..Len(s) : s[i] = "-"}

\* The filename is words, none empty and none with a dash, separated by
\* dashes and followed by .md.
IsDashedWords(filename) ==
  LET stem == Stem(filename)
  IN  /\ EndsWith(filename, <<".", "m", "d">>)
      /\ stem # <<>>
      /\ stem[1] # "-"
      /\ stem[Len(stem)] # "-"
      /\ \A i \in Dashes(stem) : i + 1 \notin Dashes(stem)

\* The words of the stem but the last, a space in the place of each dash
\* between them.
AllButLastWord(stem) ==
  [i \in 1..(Max(Dashes(stem)) - 1) |->
     IF stem[i] = "-" THEN " " ELSE stem[i]]

\* C25: filenameToMonsterName maps a filename of n words separated by
\* dashes and followed by .md to the words but the last joined by single
\* spaces when n >= 2 and to null when n = 1: gray-ooze-xmm.md gives "gray
\* ooze", goblin-mm.md gives "goblin", ooze.md gives null; and every file
\* indexBestiaryFiles has indexed has a name that is not null, its
\* filename having at least two words.
C25_FilenameToMonsterName ==
  /\ call.op = "filenameToMonsterName" /\ IsDashedWords(call.notation) =>
       LET stem == Stem(call.notation)
       IN  IF Dashes(stem) = {} THEN ret = Null
           ELSE ret = String(AllButLastWord(stem))
  /\ call.op = "filenameToMonsterName" =>
       /\ call.notation = <<"g", "r", "a", "y", "-", "o", "o", "z", "e", "-", "x", "m",
              "m", ".", "m", "d">>
            => ret = String(<<"g", "r", "a", "y", " ", "o", "o", "z", "e">>)
       /\ call.notation = <<"g", "o", "b", "l", "i", "n", "-", "m", "m", ".", "m", "d">>
            => ret = String(<<"g", "o", "b", "l", "i", "n">>)
       /\ call.notation = <<"o", "o", "z", "e", ".", "m", "d">> => ret = Null
  /\ index # Undefined =>
       \A key \in DOMAIN index.files :
         LET filename == Basename(index.files[key])
         IN  /\ EndsWith(filename, <<".", "m", "d">>)
             /\ Dashes(Stem(filename)) # {}

\* The bestiary folder lists gray-ooze-xmm.md and the note ooze.md, and the
\* index holds the first under "gray ooze" and nothing else.
C25_Witness ==
  /\ call.op = "buildMonsterIndex"
  /\ \E i \in 1..Len(call.files) :
       Basename(call.files[i]) = <<"o", "o", "z", "e", ".", "m", "d">>
  /\ \E i \in 1..Len(call.files) :
       /\ Basename(call.files[i]) = <<"g", "r", "a", "y", "-", "o", "o", "z", "e", "-", "x", "m",
              "m", ".", "m", "d">>
       /\ index.files = (<<"g", "r", "a", "y", " ", "o", "o", "z", "e">>
                         :> call.files[i])

\* C26: getMonsterByTokenName looks the lowercased token name up: when the
\* homebrew map has it, the call returns the statblock of the map and
\* requests no file, the file index having the name or not; otherwise,
\* when the file index has it, the call requests the indexed file and
\* returns what the file parses to; and it returns null and requests
\* nothing when neither has it.
C26_HomebrewFirst ==
  [][call'.op = "getMonsterByTokenName"
       /\ <<call, ret, fetched>>' # <<call, ret, fetched>> =>
     LET searchKey == toLowerCase(call'.notation)
     IN  IF searchKey \in DOMAIN index.homebrew
         THEN /\ ret' = index.homebrew[searchKey]
              /\ fetched' = fetched
         ELSE IF searchKey \in DOMAIN index.files
         THEN /\ fetched' = Append(fetched, index.files[searchKey])
              /\ ret' \in {Statblock("file", index.files[searchKey]), Null,
                           [kind |-> "error",
                            endpoint |-> index.files[searchKey]]}
         ELSE /\ ret' = Null
              /\ fetched' = fetched]_vars

\* The token Goblin is in the homebrew map and in the file index, under
\* goblin: the call has returned the homebrew statblock without a request.
C26_Witness ==
  /\ call.op = "getMonsterByTokenName"
  /\ call.notation = <<"G", "o", "b", "l", "i", "n">>
  /\ <<"g", "o", "b", "l", "i", "n">> \in DOMAIN index.homebrew
  /\ <<"g", "o", "b", "l", "i", "n">> \in DOMAIN index.files
  /\ ret = index.homebrew[<<"g", "o", "b", "l", "i", "n">>]
  /\ fetched = <<>>

\* C27: whenever the initiative list is not empty, currentTurnIndex is a
\* position of it, 0 <= currentTurnIndex < sortedItems.length, and exactly
\* one entry of the rendered list carries the active-turn highlight.
C27_TurnIndexInRange ==
  tracker.sortedItems # <<>> =>
    /\ 0 <= tracker.currentTurnIndex
    /\ tracker.currentTurnIndex < Len(tracker.sortedItems)
    /\ Cardinality(tracker.activeTurn) = 1

\* The tokens whose initiative metadata is marked active.
ActiveTokens == {c \in DOMAIN scene : scene[c] # Undefined /\ scene[c].active}

\* C28: with n >= 2 tokens in initiative and no other change of the scene,
\* each click on Next Turn makes the token after the current one in the
\* order of the list the one active token, the first after the last: once
\* the requests of k clicks are done, the active token is the one k
\* positions after the first, modulo n, so that n clicks visit every
\* token once and come back to the first; and with n <= 1 a click
\* changes nothing.
C28_NextTurnCycles ==
  LET n == Len(tracker.sortedItems)
      turn == tracker.clicks % n
  IN  IF n >= 2
      THEN rounds = <<>> /\ tracker.clicks > 0 =>
             /\ ActiveTokens = {tracker.sortedItems[turn + 1].id}
             /\ tracker.currentTurnIndex = turn
      ELSE /\ rounds = <<>>
           /\ ActiveTokens = {}
           /\ tracker.currentTurnIndex = 0

\* C29: at most one token of the scene has its initiative metadata marked
\* active, whatever clicks on the Next Turn button and on entries of the
\* list, edits of initiative values and additions and removals by the
\* context menu have happened and whatever requests of them are in flight.
C29_AtMostOneActive == Cardinality(ActiveTokens) <= 1

\* C30: once updateTurnIndicator has stored the result of a lookup in the
\* metadata of a token, getMonsterByTokenName is not called for that token
\* again; and it is never called for a token of the player.
C30_LookedUpOnce ==
  /\ \A i \in 1..Len(lookups), j \in 1..Len(lookups) :
       i < j /\ lookups[i].event = "stored" /\ lookups[j].event = "lookup"
         => lookups[i].id # lookups[j].id
  /\ \A i \in 1..Len(lookups) :
       lookups[i].event = "lookup" => ~isPlayer(Item(lookups[i].id, scene))

====
